---- MODULE Spec2Model ----
(***************************************************************************)
(* Verification model of the AAU cross-campus meal system repository.      *)
(*                                                                         *)
(*   Spec      the Django CRUD backend (MealSystem/views.py): one action   *)
(*             per HTTP method of the four endpoints, requests served one  *)
(*             after the other.                                            *)
(*   SpecConc  two concurrent POST requests on /student/, each split in    *)
(*             its validate step and its save step.                        *)
(*   SpecScan  the camera barcode scanner (scanner/views.py).              *)
(*                                                                         *)
(* Tables are SETS of rows, so that two rows with one primary key are a    *)
(* state the model can express; uniqueness comes from the unique           *)
(* validators and the database constraints derived from models.py.         *)
(***************************************************************************)
EXTENDS Integers, Sequences, FiniteSets, TLC

VARIABLES
    students,      \* rows of table Student
    users,         \* rows of table User
    schedules,     \* rows of table Schedule
    mealstatus,    \* rows of table MealStatus
    userSeq,       \* last value handed out by the AutoField sequence of User.id
    scheduleSeq,   \* last value handed out by the sequence of Schedule.schedule_id
    relField,      \* serializer field class the build derives for MealStatus.student_id
    last,          \* the request served last and its answer
    cpc,           \* SpecConc: position of each concurrent POST
    cbody,         \* SpecConc: parsed payload of each concurrent POST
    cvalid,        \* SpecConc: result of is_valid() of each concurrent POST
    cresp,         \* SpecConc: answer of each concurrent POST
    spc,           \* SpecScan: position in decode_barcode / read_bar
    ret,           \* SpecScan: whether the last cam.read() delivered a frame
    frame,         \* SpecScan: frame of the last cam.read()
    key,           \* SpecScan: value of the last cv.waitKey(1)
    file,          \* SpecScan: content of barcode__.jpg on disk
    window,        \* SpecScan: whether the "Scan" window is shown
    printed,       \* SpecScan: lines printed to stdout
    result,        \* SpecScan: what decode_barcode returned or raised
    cardinality,   \* SpecCheck: subject cardinality of each attribute of the entity type
    entity,        \* SpecCheck: the entity handed to EntitySchema.check
    creation,      \* SpecCheck: the creation argument of EntitySchema.check
    errors,        \* SpecCheck: the errors dictionary check ends with
    evaluated,     \* SpecCheck: the check_value / constraint.check calls check made
    entities,      \* SpecSchema: Schema._entities, name -> entity schema
    eschemas,      \* SpecSchema: the EntitySchema objects and their fields
    relations,     \* SpecSchema: Schema._relations, name -> relation schema
    call,          \* SpecSchema: the last call on the schema and what it raised
    constraint,    \* SpecConstraint: the constraint c
    serialized,    \* SpecConstraint: the text c.serialize() returned
    restored,      \* SpecConstraint: what cls.deserialize returned for that text
    word,          \* SpecFti: committed rows of table word
    appears,       \* SpecFti: committed rows of table appears
    word_id_seq,   \* SpecFti: committed value of the sequence table word_id_seq
    cur,           \* SpecFti: the tables as the connection's cursor sees them
    fti,           \* SpecFti: the running or last call on the indexer
    query,         \* SpecFti: the Query of the last fulltext_search
    yielded,       \* SpecFti: what its execute() yielded and raised
    directory,     \* SpecAdapter: _ADAPTER_DIRECTORY, driver -> modname -> adapter
    adapter_call   \* SpecAdapter: the last call on the directory and how it ended

crudVars == <<students, users, schedules, mealstatus, userSeq, scheduleSeq,
              relField, last>>
concVars == <<cpc, cbody, cvalid, cresp>>
scanVars == <<spc, ret, frame, key, file, window, printed, result>>
appVars == <<crudVars, concVars, scanVars>>
checkVars == <<cardinality, entity, creation, errors, evaluated>>
\* the state of the vendored libraries (yams, logilab.database)
schemaVars == <<entities, eschemas, relations, call>>
cstrVars == <<constraint, serialized, restored>>
ftiVars == <<word, appears, word_id_seq, cur, fti, query, yielded>>
adapterVars == <<directory, adapter_call>>
libVars == <<checkVars, schemaVars, cstrVars, ftiVars, adapterVars>>
vars == <<students, users, schedules, mealstatus, userSeq, scheduleSeq,
          relField, last, cpc, cbody, cvalid, cresp,
          spc, ret, frame, key, file, window, printed, result, libVars>>

(***************************************************************************)
(* Bounds and input domains                                                *)
(***************************************************************************)
\* cap of each of the two AutoField sequences (the code itself never stops
\* counting)
MaxAutoId == 1

StudentIds == {"UGR/1/12", "UGR/2/12"}
\* a 21 character name: one more than max_length=20 allows
LongName == "Abebe Kebede Alemayeh"

(***************************************************************************)
(* models.py                                                               *)
(***************************************************************************)
Student_fields == {"student_id", "name", "department", "year_of_study", "campus", "section"}
Student_unique == {"student_id"}
Student_max_length == [student_id |-> 15, name |-> 20, department |-> 20, campus |-> 20]

User_fields == {"id", "name", "username"}
User_max_length == [name |-> 20, username |-> 20]

Schedule_fields == {"schedule_id", "batch", "department", "section", "campus", "DAY", "time"}
Schedule_max_length == [department |-> 20, campus |-> 20, DAY |-> 2]
DAY_CHOICES == {"MN", "TU", "WN", "TH", "FR", "ST", "SN"}
Schedule_defaults == [DAY |-> "MN"]

MealStatus_fields == {"student_id", "breakfast", "lunch", "dinner"}
\* mutant: student_id declared without unique=True, primary_key=True
MealStatus_unique_keyless == {}
MealStatus_unique == {"student_id"}
\* mutant: breakfast declared with default=True
MealStatus_defaults_breakfast == [breakfast |-> TRUE, lunch |-> FALSE, dinner |-> FALSE]
MealStatus_defaults == [breakfast |-> FALSE, lunch |-> FALSE, dinner |-> FALSE]

(***************************************************************************)
(* serializers.py: the fields a payload may set, and those it must give    *)
(***************************************************************************)
UserSerializer_fields == {"id", "name", "username"}
UserSerializer_writable == {"name", "username"}      \* id is an AutoField: read only
StudentSerializer_fields == {"student_id", "name", "department", "year_of_study", "campus", "section"}
ScheduleSerializer_fields == {"department", "batch", "campus", "section", "time", "DAY"}
MealStatusSerializer_fields == {"student_id", "breakfast", "lunch", "dinner"}

(***************************************************************************)
(* The ORM and serializer machinery the handlers call                      *)
(***************************************************************************)
Restrict(r, F) == [f \in F \cap DOMAIN r |-> r[f]]

\* Manager.get(**kw): a keyword that is no field of the model is a
\* FieldError; no row is DoesNotExist; otherwise the matching row
QuerySet_get(rows, fields, kw) ==
    IF ~(DOMAIN kw \subseteq fields)
    THEN [exc |-> "FieldError", objs |-> {}]
    ELSE LET m == {r \in rows : \A f \in DOMAIN kw : r[f] = kw[f]}
         IN  IF m = {} THEN [exc |-> "DoesNotExist", objs |-> {}]
             ELSE IF Cardinality(m) > 1 THEN [exc |-> "MultipleObjectsReturned", objs |-> {}]
             ELSE [exc |-> "", objs |-> m]

\* CharField(max_length=n): a string, not blank, of at most n characters
CharFieldValid(data, maxlen) ==
    \A f \in DOMAIN maxlen \cap DOMAIN data : Len(data[f]) > 0 /\ Len(data[f]) <= maxlen[f]

\* UniqueValidator of every unique model field: no row other than the
\* instance being updated holds the value
UniqueValidator(rows, unique, data, instance) ==
    \A f \in unique \cap DOMAIN data : \A r \in rows \ instance : r[f] # data[f]

\* mutant: a table created without its key constraint
Model_insert_unchecked(rows, unique, row) == [exc |-> "", rows |-> rows \cup {row}]

\* INSERT under the UNIQUE / PRIMARY KEY constraints of the table
Model_insert(rows, unique, row) ==
    IF \E f \in unique : \E r \in rows : r[f] = row[f]
    THEN [exc |-> "IntegrityError", rows |-> rows]
    ELSE [exc |-> "", rows |-> rows \cup {row}]

\* instance.save() of an update: UPDATE ... WHERE pk = instance.pk
Model_update(rows, pk, instance, validated) ==
    LET new == [f \in DOMAIN instance |->
                   IF f \in DOMAIN validated THEN validated[f] ELSE instance[f]]
    IN  {r \in rows : r[pk] # instance[pk]} \cup {new}

\* instance.delete(): DELETE ... WHERE pk = instance.pk
Model_delete(rows, pk, instance) == {r \in rows : r[pk] # instance[pk]}

\* on_delete=models.CASCADE of MealStatus.student_id
Cascade(rows, student) == {r \in rows : r.student_id # student.student_id}

\* AutoField: the next value of the sequence, never handed out before
AutoField_next(seq) == seq + 1

Json(text, status) == [kind |-> "json", text |-> text, status |-> status]
\* an exception no handler catches: Django answers 500
Raise(exc) == [kind |-> "raise", text |-> exc, status |-> 500]
\* JsonResponse(data) with safe=True refuses anything but a dict
JsonResponse(text, safe, status) ==
    IF safe THEN Raise("TypeError") ELSE Json(text, status)

Request(ep, method, body, answer) ==
    [ep |-> ep, method |-> method, body |-> body, answer |-> answer]

(***************************************************************************)
(* Request payloads                                                        *)
(***************************************************************************)
NoBody == [none |-> TRUE]

StudentBody(k, n) ==
    [student_id |-> k, name |-> n, department |-> "Software",
     year_of_study |-> 3, campus |-> "5killo", section |-> 1]
StudentPostBodies ==
    {StudentBody(k, n) : k \in StudentIds, n \in {"Abebe", LongName}}
      \cup {[name |-> "Abebe"]}
StudentPutBodies ==
    {StudentBody(k, "Kebede") : k \in StudentIds} \cup {[name |-> "Kebede"]}
StudentDeleteBodies ==
    {[student_id |-> k] : k \in StudentIds} \cup {[name |-> "Abebe"]}

UserBody(n) == [name |-> n, username |-> "abe"]
UserPostBodies == {UserBody("Abebe"), UserBody(LongName), [name |-> "Abebe"]}
UserPutBodies ==
    {UserBody("Kebede") @@ [id |-> i] : i \in 1..MaxAutoId}
      \cup {UserBody(LongName) @@ [id |-> 1], UserBody("Kebede")}
UserDeleteBodies == {[id |-> i] : i \in 1..MaxAutoId} \cup {[name |-> "Abebe"]}

ScheduleBody == [department |-> "Software", batch |-> 3, campus |-> "5killo",
                 section |-> 1, time |-> "12:30"]
SchedulePostBodies ==
    {ScheduleBody} \cup {ScheduleBody @@ [DAY |-> d] : d \in {"TU", "XX"}}
SchedulePutBodies ==
    {b @@ [schedule_id |-> 1] : b \in SchedulePostBodies}
      \cup {ScheduleBody @@ [DAY |-> "TU", schedule_id |-> i] : i \in 1..MaxAutoId}
      \cup {ScheduleBody}
ScheduleDeleteBodies ==
    {[schedule_id |-> i] : i \in 1..MaxAutoId} \cup {[DAY |-> "TU"]}

MealFlags == [breakfast |-> TRUE, lunch |-> FALSE, dinner |-> TRUE]
MealStatusPostBodies ==
    {[student_id |-> k] : k \in StudentIds}
      \cup {[student_id |-> k] @@ MealFlags : k \in StudentIds}
      \cup {MealFlags}
MealStatusPutBodies ==
    {[id |-> k, student_id |-> k, lunch |-> TRUE] : k \in StudentIds}
      \cup {[student_id |-> k, lunch |-> TRUE] : k \in StudentIds}
MealStatusDeleteBodies ==
    {[student_id |-> k] : k \in StudentIds} \cup {MealFlags}

(***************************************************************************)
(* Serializer validation (ModelSerializer built from the model fields)     *)
(***************************************************************************)
StudentSerializer_is_valid(rows, data, instance) ==
    /\ StudentSerializer_fields \subseteq DOMAIN data
    /\ CharFieldValid(data, Student_max_length)
    /\ UniqueValidator(rows, Student_unique, data, instance)

UserSerializer_is_valid(data) ==
    /\ UserSerializer_writable \subseteq DOMAIN data
    /\ CharFieldValid(data, User_max_length)

\* DAY has a model default, so it is optional; given, it must be a choice
ScheduleSerializer_is_valid(data) ==
    /\ (ScheduleSerializer_fields \ DOMAIN Schedule_defaults) \subseteq DOMAIN data
    /\ CharFieldValid(Restrict(data, {"department", "campus"}), Schedule_max_length)
    /\ "DAY" \in DOMAIN data => data.DAY \in DAY_CHOICES

\* student_id is required and unique; the three flags have defaults.
\* A PrimaryKeyRelatedField also looks the student up; a ModelField (what
\* the primary key of a model maps to when it is a plain ForeignKey) only
\* converts the value.
\* mutant: student_id serialized as a plain value, the student never looked up
MealStatusSerializer_is_valid_nolookup(rows, studs, data, instance, fieldClass) ==
    /\ "student_id" \in DOMAIN data
    /\ UniqueValidator(rows, MealStatus_unique, data, instance)

MealStatusSerializer_is_valid(rows, studs, data, instance, fieldClass) ==
    /\ "student_id" \in DOMAIN data
    /\ fieldClass = "PrimaryKeyRelatedField" =>
           \E s \in studs : s.student_id = data.student_id
    /\ UniqueValidator(rows, MealStatus_unique, data, instance)

(***************************************************************************)
(* views.py: the four endpoints, requests served one at a time             *)
(***************************************************************************)
\* what every handler leaves behind: the request it served (body is the
\* parsed payload) and the answer it gave
Served(ep, method, body, answer) ==
    /\ last' = Request(ep, method, body, answer)
    /\ UNCHANGED <<relField, cpc, cbody, cvalid, cresp,
                   spc, ret, frame, key, file, window, printed, result>>
    /\ UNCHANGED libVars

studentApi_GET ==
    /\ Served("student", "GET", NoBody, JsonResponse("<students>", FALSE, 200))
    /\ UNCHANGED <<students, users, schedules, mealstatus, userSeq, scheduleSeq>>

studentApi_POST(body) ==
    LET ins == Model_insert(students, Student_unique, Restrict(body, StudentSerializer_fields))
    IN  /\ IF StudentSerializer_is_valid(students, body, {})
           THEN IF ins.exc = ""
                THEN /\ students' = ins.rows
                     /\ Served("student", "POST", body,
                               JsonResponse("Student Added Sucessfully!", FALSE, 200))
                ELSE /\ students' = students
                     /\ Served("student", "POST", body, Raise(ins.exc))
           ELSE /\ students' = students
                /\ Served("student", "POST", body, JsonResponse("Failed to Add.", TRUE, 200))
        /\ UNCHANGED <<users, schedules, mealstatus, userSeq, scheduleSeq>>

studentApi_PUT(body) ==
    /\ IF "student_id" \notin DOMAIN body
       THEN /\ students' = students
            /\ Served("student", "PUT", body, Raise("KeyError"))
       ELSE LET got == QuerySet_get(students, Student_fields, [id |-> body.student_id])
            IN  IF got.exc # ""
                THEN /\ students' = students
                     /\ Served("student", "PUT", body, Raise(got.exc))
                ELSE \E student \in got.objs :
                       IF StudentSerializer_is_valid(students, body, {student})
                       THEN /\ students' = Model_update(students, "student_id", student,
                                               Restrict(body, StudentSerializer_fields))
                            /\ Served("student", "PUT", body,
                                      JsonResponse("Data Updated Sucessfully!", FALSE, 200))
                       ELSE /\ students' = students
                            /\ Served("student", "PUT", body,
                                      JsonResponse("Failed to Update.", FALSE, 200))
    /\ UNCHANGED <<users, schedules, mealstatus, userSeq, scheduleSeq>>

studentApi_DELETE(body) ==
    /\ IF "student_id" \notin DOMAIN body
       THEN /\ UNCHANGED <<students, mealstatus>>
            /\ Served("student", "DELETE", body, Raise("KeyError"))
       ELSE LET got == QuerySet_get(students, Student_fields,
                                    [id |-> body.student_id, safe |-> FALSE])
            IN  IF got.exc # ""
                THEN /\ UNCHANGED <<students, mealstatus>>
                     /\ Served("student", "DELETE", body, Raise(got.exc))
                ELSE IF got.objs # {}
                THEN \E student \in got.objs :
                       /\ students' = Model_delete(students, "student_id", student)
                       /\ mealstatus' = Cascade(mealstatus, student)
                       /\ Served("student", "DELETE", body,
                                 JsonResponse("Data Deleted Sucessfully!", FALSE, 200))
                ELSE /\ UNCHANGED <<students, mealstatus>>
                     /\ Served("student", "DELETE", body,
                               JsonResponse("No such a data.", FALSE, 200))
    /\ UNCHANGED <<users, schedules, userSeq, scheduleSeq>>

\* urls.py captures no group, so id keeps its default -1: always the list
userApi_GET ==
    /\ Served("user", "GET", NoBody, JsonResponse("<users>", FALSE, 200))
    /\ UNCHANGED <<students, users, schedules, mealstatus, userSeq, scheduleSeq>>

userApi_POST(body) ==
    LET id  == AutoField_next(userSeq)
        ins == Model_insert(users, {"id"}, Restrict(body, UserSerializer_writable) @@ [id |-> id])
    IN  /\ IF UserSerializer_is_valid(body)
           THEN /\ userSeq < MaxAutoId
                /\ userSeq' = id
                /\ IF ins.exc = ""
                   THEN /\ users' = ins.rows
                        /\ Served("user", "POST", body,
                                  JsonResponse("User Added Sucessfully!", FALSE, 201))
                   ELSE /\ users' = users
                        /\ Served("user", "POST", body, Raise(ins.exc))
           ELSE /\ UNCHANGED <<users, userSeq>>
                /\ Served("user", "POST", body, JsonResponse("Failed to Add.", FALSE, 400))
        /\ UNCHANGED <<students, schedules, mealstatus, scheduleSeq>>

userApi_PUT(body) ==
    /\ IF "id" \notin DOMAIN body
       THEN /\ users' = users
            /\ Served("user", "PUT", body, Raise("KeyError"))
       ELSE LET got == QuerySet_get(users, User_fields, [id |-> body.id])
            IN  IF got.exc # ""
                THEN /\ users' = users
                     /\ Served("user", "PUT", body, Raise(got.exc))
                ELSE \E user \in got.objs :
                       IF UserSerializer_is_valid(body)
                       THEN /\ users' = Model_update(users, "id", user,
                                            Restrict(body, UserSerializer_writable))
                            /\ Served("user", "PUT", body,
                                      JsonResponse("Data Updated Sucessfully!", FALSE, 200))
                       ELSE /\ users' = users
                            /\ Served("user", "PUT", body,
                                      JsonResponse("Failed to Update.", FALSE, 200))
    /\ UNCHANGED <<students, schedules, mealstatus, userSeq, scheduleSeq>>

userApi_DELETE(body) ==
    /\ IF "id" \notin DOMAIN body
       THEN /\ users' = users
            /\ Served("user", "DELETE", body, Raise("KeyError"))
       ELSE LET got == QuerySet_get(users, User_fields, [id |-> body.id])
            IN  IF got.exc # ""
                THEN /\ users' = users
                     /\ Served("user", "DELETE", body, Raise(got.exc))
                ELSE \E user \in got.objs :
                       /\ users' = Model_delete(users, "id", user)
                       /\ Served("user", "DELETE", body,
                                 JsonResponse("Data Deleted Sucessfully!", FALSE, 200))
    /\ UNCHANGED <<students, schedules, mealstatus, userSeq, scheduleSeq>>

scheduleApi_GET ==
    /\ Served("schedule", "GET", NoBody, JsonResponse("<schedules>", FALSE, 200))
    /\ UNCHANGED <<students, users, schedules, mealstatus, userSeq, scheduleSeq>>

scheduleApi_POST(body) ==
    LET id  == AutoField_next(scheduleSeq)
        row == (Restrict(body, ScheduleSerializer_fields) @@ Schedule_defaults)
                  @@ [schedule_id |-> id]
        ins == Model_insert(schedules, {"schedule_id"}, row)
    IN  /\ IF ScheduleSerializer_is_valid(body)
           THEN /\ scheduleSeq < MaxAutoId
                /\ scheduleSeq' = id
                /\ IF ins.exc = ""
                   THEN /\ schedules' = ins.rows
                        /\ Served("schedule", "POST", body,
                                  JsonResponse("Schedule Added Sucessfully!", FALSE, 200))
                   ELSE /\ schedules' = schedules
                        /\ Served("schedule", "POST", body, Raise(ins.exc))
           ELSE /\ UNCHANGED <<schedules, scheduleSeq>>
                /\ Served("schedule", "POST", body, JsonResponse("Failed to Add.", FALSE, 200))
        /\ UNCHANGED <<students, users, mealstatus, userSeq>>

scheduleApi_PUT(body) ==
    /\ IF "schedule_id" \notin DOMAIN body
       THEN /\ schedules' = schedules
            /\ Served("schedule", "PUT", body, Raise("KeyError"))
       ELSE LET got == QuerySet_get(schedules, Schedule_fields,
                                    [schedule_id |-> body.schedule_id])
            IN  IF got.exc # ""
                THEN /\ schedules' = schedules
                     /\ Served("schedule", "PUT", body, Raise(got.exc))
                ELSE \E schedule \in got.objs :
                       IF ScheduleSerializer_is_valid(body)
                       THEN /\ schedules' = Model_update(schedules, "schedule_id", schedule,
                                                Restrict(body, ScheduleSerializer_fields))
                            /\ Served("schedule", "PUT", body,
                                      JsonResponse("Data Updated Sucessfully!", FALSE, 200))
                       ELSE /\ schedules' = schedules
                            /\ Served("schedule", "PUT", body,
                                      JsonResponse("Failed to Update.", FALSE, 200))
    /\ UNCHANGED <<students, users, mealstatus, userSeq, scheduleSeq>>

scheduleApi_DELETE(body) ==
    /\ IF "schedule_id" \notin DOMAIN body
       THEN /\ schedules' = schedules
            /\ Served("schedule", "DELETE", body, Raise("KeyError"))
       ELSE LET got == QuerySet_get(schedules, Schedule_fields,
                                    [schedule_id |-> body.schedule_id])
            IN  IF got.exc # ""
                THEN /\ schedules' = schedules
                     /\ Served("schedule", "DELETE", body, Raise(got.exc))
                ELSE IF got.objs # {}
                THEN \E schedule \in got.objs :
                       /\ schedules' = Model_delete(schedules, "schedule_id", schedule)
                       /\ Served("schedule", "DELETE", body,
                                 JsonResponse("Data Deleted Sucessfully!", FALSE, 200))
                ELSE /\ schedules' = schedules
                     /\ Served("schedule", "DELETE", body,
                               JsonResponse("No such a data.", FALSE, 200))
    /\ UNCHANGED <<students, users, mealstatus, userSeq, scheduleSeq>>

mealStatusApi_GET ==
    /\ Served("meal-status", "GET", NoBody, JsonResponse("<status>", FALSE, 200))
    /\ UNCHANGED <<students, users, schedules, mealstatus, userSeq, scheduleSeq>>

\* save() builds MealStatus(student_id=value): with a ModelField the value
\* is the raw key, which the ForeignKey descriptor refuses (ValueError)
mealStatusApi_POST(body) ==
    LET row == Restrict(body, MealStatusSerializer_fields) @@ MealStatus_defaults
        ins == Model_insert(mealstatus, MealStatus_unique, row)
    IN  /\ IF MealStatusSerializer_is_valid(mealstatus, students, body, {}, relField)
           THEN IF relField = "ModelField"
                THEN /\ mealstatus' = mealstatus
                     /\ Served("meal-status", "POST", body, Raise("ValueError"))
                ELSE IF ins.exc = ""
                THEN /\ mealstatus' = ins.rows
                     /\ Served("meal-status", "POST", body,
                               JsonResponse("Status Added Sucessfully!", FALSE, 201))
                ELSE /\ mealstatus' = mealstatus
                     /\ Served("meal-status", "POST", body, Raise(ins.exc))
           ELSE /\ mealstatus' = mealstatus
                /\ Served("meal-status", "POST", body,
                          JsonResponse("Failed to Add.", FALSE, 400))
        /\ UNCHANGED <<students, users, schedules, userSeq, scheduleSeq>>

mealStatusApi_PUT(body) ==
    /\ IF "id" \notin DOMAIN body
       THEN /\ mealstatus' = mealstatus
            /\ Served("meal-status", "PUT", body, Raise("KeyError"))
       ELSE LET got == QuerySet_get(mealstatus, MealStatus_fields, [id |-> body.id])
            IN  IF got.exc # ""
                THEN /\ mealstatus' = mealstatus
                     /\ Served("meal-status", "PUT", body, Raise(got.exc))
                ELSE \E status \in got.objs :
                       IF MealStatusSerializer_is_valid(mealstatus, students, body,
                                                        {status}, relField)
                       THEN /\ mealstatus' = Model_update(mealstatus, "student_id", status,
                                                 Restrict(body, MealStatusSerializer_fields))
                            /\ Served("meal-status", "PUT", body,
                                      JsonResponse("Status Updated Sucessfully!", FALSE, 200))
                       ELSE /\ mealstatus' = mealstatus
                            /\ Served("meal-status", "PUT", body,
                                      JsonResponse("Failed to Update.", FALSE, 200))
    /\ UNCHANGED <<students, users, schedules, userSeq, scheduleSeq>>

mealStatusApi_DELETE(body) ==
    /\ IF "student_id" \notin DOMAIN body
       THEN /\ mealstatus' = mealstatus
            /\ Served("meal-status", "DELETE", body, Raise("KeyError"))
       ELSE LET got == QuerySet_get(mealstatus, MealStatus_fields,
                                    [student_id |-> body.student_id])
            IN  IF got.exc # ""
                THEN /\ mealstatus' = mealstatus
                     /\ Served("meal-status", "DELETE", body, Raise(got.exc))
                ELSE IF got.objs # {}
                THEN \E status \in got.objs :
                       /\ mealstatus' = Model_delete(mealstatus, "student_id", status)
                       /\ Served("meal-status", "DELETE", body,
                                 JsonResponse("Data Deleted Sucessfully!", FALSE, 200))
                ELSE /\ mealstatus' = mealstatus
                     /\ Served("meal-status", "DELETE", body,
                               JsonResponse("No such a data.", FALSE, 200))
    /\ UNCHANGED <<students, users, schedules, userSeq, scheduleSeq>>

(***************************************************************************)
(* scanner/views.py: the camera barcode scanner                            *)
(***************************************************************************)
\* A picture is the sequence of barcodes pyzbar finds in it, each barcode
\* the sequence of its data bytes.
Code1 == <<65, 49>>
Code2 == <<66, 50>>
Frames == {<<>>, <<Code1>>, <<Code2, Code1>>}
\* cv.waitKey(1): -1 when no key was pressed, else the key code, which some
\* platforms deliver with high bits set
KeyCodes == {-1, 97, 27, 13, 32, 283, 1048608}
NotDetected == "Barcode Not Detected or your barcode is blank/corrupted!"

NoFile == [exists |-> FALSE, img |-> <<>>]
NoResult == [kind |-> "none", text |-> ""]
Return(text) == [kind |-> "return", text |-> text]
Throw(exc) == [kind |-> "raise", text |-> exc]

\* chr(i) of the bytes that occur
chr(i) == CASE i = 65 -> "A" [] i = 66 -> "B" [] i = 49 -> "1" [] i = 50 -> "2"
RECURSIVE dec(_)
\* dec = ""; for i in barcode.data: dec += str(chr(i))
dec(data) == IF data = <<>> THEN "" ELSE chr(Head(data)) \o dec(Tail(data))

\* cv.imread: the picture, or None when the file cannot be read
imread(f) == IF f.exists THEN [none |-> FALSE, img |-> f.img] ELSE [none |-> TRUE, img |-> <<>>]

\* read_bar(filename): decode(None) raises TypeError; no barcode gives the
\* message; else the data of the first barcode
read_bar(f) ==
    LET img == imread(f)
    IN  IF img.none THEN Throw("TypeError")
        ELSE IF img.img = <<>> THEN Return(NotDetected)
        ELSE Return(dec(Head(img.img)))

\* scanned(request) calls decode_barcode(): cam = cv.VideoCapture(0)
scanned ==
    /\ spc \in {"idle", "done"}
    /\ spc' = "read"
    /\ result' = NoResult
    /\ printed' = <<>>
    /\ UNCHANGED <<ret, frame, key, file, window>>
    /\ UNCHANGED <<students, users, schedules, mealstatus, userSeq, scheduleSeq,
                   relField, last, cpc, cbody, cvalid, cresp>>
    /\ UNCHANGED libVars

\* ret, frame = cam.read(); if not ret: print(...); break
cam_read ==
    /\ spc = "read"
    /\ \E r \in BOOLEAN : \E f \in Frames :
         /\ ret' = r
         /\ IF r
            THEN /\ frame' = f
                 /\ spc' = "show"
                 /\ printed' = printed
            ELSE /\ frame' = <<>>
                 /\ printed' = Append(printed, "Failed to capture")
                 /\ spc' = "read_bar"
    /\ UNCHANGED <<key, file, window, result>>
    /\ UNCHANGED <<students, users, schedules, mealstatus, userSeq, scheduleSeq,
                   relField, last, cpc, cbody, cvalid, cresp>>
    /\ UNCHANGED libVars

\* show_waitKey with the Enter/Space branch writing the file but staying in
\* the loop (no break after cv.imwrite)
show_waitKey_noBreak ==
    /\ spc = "show"
    /\ \E k \in KeyCodes :
         /\ key' = k
         /\ IF k % 256 = 27
            THEN /\ window' = FALSE
                 /\ file' = file
                 /\ spc' = "read_bar"
            ELSE IF k % 256 = 13 \/ k % 256 = 32
            THEN /\ file' = [exists |-> TRUE, img |-> frame]
                 /\ window' = FALSE
                 /\ spc' = "read"
            ELSE /\ window' = TRUE
                 /\ file' = file
                 /\ spc' = "read"
    /\ UNCHANGED <<ret, frame, printed, result>>
    /\ UNCHANGED <<students, users, schedules, mealstatus, userSeq, scheduleSeq,
                   relField, last, cpc, cbody, cvalid, cresp>>
    /\ UNCHANGED libVars

\* cv.imshow("Scan", frame); k = cv.waitKey(1); the two tests on k % 256
show_waitKey ==
    /\ spc = "show"
    /\ \E k \in KeyCodes :
         /\ key' = k
         /\ IF k % 256 = 27
            THEN /\ window' = FALSE
                 /\ file' = file
                 /\ spc' = "read_bar"
            ELSE IF k % 256 = 13 \/ k % 256 = 32
            THEN /\ file' = [exists |-> TRUE, img |-> frame]
                 /\ window' = FALSE
                 /\ spc' = "read_bar"
            ELSE /\ window' = TRUE
                 /\ file' = file
                 /\ spc' = "read"
    /\ UNCHANGED <<ret, frame, printed, result>>
    /\ UNCHANGED <<students, users, schedules, mealstatus, userSeq, scheduleSeq,
                   relField, last, cpc, cbody, cvalid, cresp>>
    /\ UNCHANGED libVars

\* return read_bar("barcode__.jpg")
decode_barcode_return ==
    /\ spc = "read_bar"
    /\ result' = read_bar(file)
    /\ spc' = "done"
    /\ UNCHANGED <<ret, frame, key, file, window, printed>>
    /\ UNCHANGED <<students, users, schedules, mealstatus, userSeq, scheduleSeq,
                   relField, last, cpc, cbody, cvalid, cresp>>
    /\ UNCHANGED libVars

(***************************************************************************)
(* Two concurrent POST requests on /student/                               *)
(***************************************************************************)
ConcBodies == {StudentBody(k, n) : k \in StudentIds, n \in {"Abebe", "Kebede", LongName}}

\* student_serializer.is_valid(), and the return of the rejected payload
conc_is_valid(p) ==
    /\ cpc[p] = "is_valid"
    /\ LET valid == StudentSerializer_is_valid(students, cbody[p], {})
       IN  /\ cvalid' = [cvalid EXCEPT ![p] = valid]
           /\ IF valid
              THEN /\ cpc' = [cpc EXCEPT ![p] = "save"]
                   /\ cresp' = cresp
              ELSE /\ cpc' = [cpc EXCEPT ![p] = "done"]
                   /\ cresp' = [cresp EXCEPT ![p] = JsonResponse("Failed to Add.", TRUE, 200)]
    /\ UNCHANGED <<students, cbody>>
    /\ UNCHANGED <<users, schedules, mealstatus, userSeq, scheduleSeq, relField, last,
                   spc, ret, frame, key, file, window, printed, result>>
    /\ UNCHANGED libVars

\* student_serializer.save(), and the return that follows it
conc_save(p) ==
    /\ cpc[p] = "save"
    /\ LET ins == Model_insert(students, Student_unique,
                               Restrict(cbody[p], StudentSerializer_fields))
       IN  /\ students' = ins.rows
           /\ cresp' = [cresp EXCEPT ![p] =
                          IF ins.exc = ""
                          THEN JsonResponse("Student Added Sucessfully!", FALSE, 200)
                          ELSE Raise(ins.exc)]
    /\ cpc' = [cpc EXCEPT ![p] = "done"]
    /\ UNCHANGED <<cbody, cvalid>>
    /\ UNCHANGED <<users, schedules, mealstatus, userSeq, scheduleSeq, relField, last,
                   spc, ret, frame, key, file, window, printed, result>>
    /\ UNCHANGED libVars

(***************************************************************************)
(* yams: Python values, and EntitySchema.check (yams/schema.py)            *)
(***************************************************************************)
PyNone == [py |-> "NoneType"]
PyStr(s) == [py |-> "str", v |-> s]
PyInt(i) == [py |-> "int", v |-> i]

\* role_name(relation_type, role): "%s-%s" % (relation_type, role)
role_name(relation_type, role) == <<relation_type, role>>

\* SizeConstraint(max, min, msg)
SizeConstraint(max, min, msg) == [cls |-> "SizeConstraint", max |-> max, min |-> min, msg |-> msg]

\* SizeConstraint.check(entity, rtype, value)
SizeConstraint_check(c, value) ==
    IF c.max # PyNone /\ Len(value.v) > c.max.v THEN FALSE
    ELSE IF c.min # PyNone /\ Len(value.v) < c.min.v THEN FALSE
    ELSE TRUE

\* BaseConstraint.failed_message with SizeConstraint._failed_message
SizeConstraint_failed_message(c, value) ==
    IF c.msg # PyNone THEN c.msg.v
    ELSE IF c.max # PyNone /\ Len(value.v) > c.max.v
    THEN "value should have maximum size of %(KEY-max)s but found %(KEY-size)s"
    ELSE "value should have minimum size of %(KEY-min)s but found %(KEY-size)s"

\* check_string(eschema, value): isinstance(value, str)
check_string(value) == value.py = "str"

\* EntitySchema.check_value: field_checkers[self.type](self, value)
check_value(type, value) == IF type = "String" THEN check_string(value) ELSE TRUE

\* the final subject relations of the entity type that is checked: two
\* String attributes, title declared with maxsize=3
subject_relations ==
    [name  |-> [type |-> "String", constraints |-> <<>>],
     title |-> [type |-> "String",
                constraints |-> <<SizeConstraint(PyInt(3), PyNone, PyNone)>>]]

\* AbstractTypedAttribute.__init__: required gives "11", else "?1"; check
\* reads the first character
SubjectCardinalities == {"1", "?"}

AttributeValues == {PyNone, PyStr("ab"), PyStr("abcdef"), PyInt(7)}
Entities == UNION {[S -> AttributeValues] : S \in SUBSET DOMAIN subject_relations}

\* mutant: a missing required attribute is reported on edition too
check_relation_strict(ent, creat, card, r) ==
    LET required == card[r] = "1"
        value == ent[r]
        aschema == subject_relations[r].type
        failed == SelectSeq(subject_relations[r].constraints,
                            LAMBDA c : ~SizeConstraint_check(c, value))
    IN  IF r \notin DOMAIN ent
        THEN [error |-> IF required THEN "required attribute" ELSE "",
              calls |-> {}]
        ELSE IF value = PyNone
        THEN [error |-> IF required THEN "required attribute" ELSE "", calls |-> {}]
        ELSE IF ~check_value(aschema, value)
        THEN [error |-> "incorrect value (%(KEY-value)r) for type \"%(KEY-type)s\"",
              calls |-> {<<r, "check_value">>}]
        ELSE [error |-> IF failed # <<>>
                        THEN SizeConstraint_failed_message(Head(failed), value) ELSE "",
              calls |-> {<<r, "check_value">>, <<r, "constraint.check">>}]

\* one iteration of the loop of EntitySchema.check: the error it stores for
\* relation r ("" for none) and the checker calls it makes
check_relation(ent, creat, card, r) ==
    LET required == card[r] = "1"
        value == ent[r]
        aschema == subject_relations[r].type
        failed == SelectSeq(subject_relations[r].constraints,
                            LAMBDA c : ~SizeConstraint_check(c, value))
    IN  IF r \notin DOMAIN ent
        THEN [error |-> IF creat /\ required THEN "required attribute" ELSE "",
              calls |-> {}]
        ELSE IF value = PyNone
        THEN [error |-> IF required THEN "required attribute" ELSE "", calls |-> {}]
        ELSE IF ~check_value(aschema, value)
        THEN [error |-> "incorrect value (%(KEY-value)r) for type \"%(KEY-type)s\"",
              calls |-> {<<r, "check_value">>}]
        ELSE [error |-> IF failed # <<>>
                        THEN SizeConstraint_failed_message(Head(failed), value) ELSE "",
              calls |-> {<<r, "check_value">>, <<r, "constraint.check">>}]

\* EntitySchema.check(entity, creation): the errors dictionary (a
\* ValidationError is raised when it is not empty) and the calls made
EntitySchema_check(ent, creat, card) ==
    LET out == [r \in DOMAIN subject_relations |-> check_relation(ent, creat, card, r)]
        bad == {r \in DOMAIN subject_relations : out[r].error # ""}
    IN  [errors |-> [q \in {role_name(r, "subject") : r \in bad} |-> out[q[1]].error],
         calls |-> UNION {out[r].calls : r \in DOMAIN subject_relations}]

check ==
    /\ \E ent \in Entities : \E creat \in BOOLEAN :
         LET done == EntitySchema_check(ent, creat, cardinality)
         IN  /\ entity' = ent
             /\ creation' = creat
             /\ errors' = done.errors
             /\ evaluated' = done.calls
    /\ UNCHANGED cardinality
    /\ UNCHANGED appVars
    /\ UNCHANGED <<schemaVars, cstrVars, ftiVars, adapterVars>>

(***************************************************************************)
(* yams: Schema, EntitySchema and RelationSchema (yams/schema.py).         *)
(* Schema objects are referred to by identity: an entity schema is the     *)
(* pair <<name it was created with, count>>, its current name is its type  *)
(* field.  The schema is built from three entity types (Student            *)
(* specializes Person) and two relation types, neither symmetric nor       *)
(* inlined.  A dictionary keyed by entity schemas keeps, with each key,    *)
(* the hash the key had when it was inserted.                              *)
(***************************************************************************)
BASE_TYPES == {"String"}

\* buildobjs.EntityType: name, __specializes__ ("" for None), __specialized_by__
EntityType(name, specialized_type, specialized_by) ==
    [name |-> name, specialized_type |-> specialized_type, specialized_by |-> specialized_by]
EntityTypes ==
    {EntityType("String", "", <<>>),
     EntityType("Person", "", <<"Student">>),
     EntityType("Student", "Person", <<>>)}
RelationTypes == {"name", "knows"}
\* buildobjs.RelationDefinition: subject, name, object
RelationDefinitions ==
    {<<"Person", "name", "String">>, <<"Person", "knows", "Person">>,
     <<"String", "name", "String">>, <<"Student", "knows", "Company">>}
\* names rename_entity_type is called with: new is no entity type of the schema
OldNames == {"Person", "Student", "Company"}
NewNames == {"Human"}

KeyError == <<"KeyError", 0>>
NoSchema == <<"None", 0>>
NoDict == [k \in {} |-> 0]

TheSchema(ents, objs, rels) == [entities |-> ents, eschemas |-> objs, relations |-> rels]
Outcome(S, exc) == [schema |-> S, raised |-> exc]
Put(dict, k, v) == (k :> v) @@ dict
Del(dict, ks) == [k \in DOMAIN dict \ ks |-> dict[k]]

\* Schema.entity_schema_for: self._entities[entity_type]
entity_schema_for(S, entity_type) ==
    IF entity_type \in DOMAIN S.entities THEN S.entities[entity_type] ELSE KeyError

\* EntitySchema.specializes
specializes(S, eschema) ==
    IF S.eschemas[eschema].specialized_type # ""
    THEN entity_schema_for(S, S.eschemas[eschema].specialized_type)
    ELSE NoSchema

\* EntitySchema.specialized_by(recursive=True); {KeyError} when a name of
\* _specialized_by is no entity type of the schema
RECURSIVE specialized_by(_, _)
specialized_by(S, eschema) ==
    LET names == S.eschemas[eschema].specialized_by
        subject_schemas == {entity_schema_for(S, names[i]) : i \in DOMAIN names}
        below == UNION {specialized_by(S, s) : s \in subject_schemas \ {KeyError}}
    IN  IF KeyError \in subject_schemas \cup below THEN {KeyError}
        ELSE subject_schemas \cup below

\* EntitySchema.__init__
EntitySchema(S, definition) ==
    [type |-> definition.name,
     specialized_type |-> definition.specialized_type,
     specialized_by |-> definition.specialized_by,
     final |-> definition.name \in BASE_TYPES,
     subject_relations |-> {},
     object_relations |-> {}]

\* the identity of the next entity schema created from this definition
NewObject(S, definition) ==
    <<definition.name, Cardinality({o \in DOMAIN S.eschemas : o[1] = definition.name}) + 1>>

\* mutant: add_entity_type without the test on self._entities
add_entity_type_overwrite(S, definition) ==
    LET o == NewObject(S, definition)
    IN  Outcome(TheSchema(Put(S.entities, definition.name, o),
                          Put(S.eschemas, o, EntitySchema(S, definition)),
                          S.relations), "")

\* Schema.add_entity_type
add_entity_type(S, definition) ==
    LET o == NewObject(S, definition)
    IN  IF definition.name \in DOMAIN S.entities
        THEN Outcome(S, "BadSchemaDefinition")
        ELSE Outcome(TheSchema(Put(S.entities, definition.name, o),
                               Put(S.eschemas, o, EntitySchema(S, definition)),
                               S.relations), "")

\* RelationSchema.__init__
RelationSchema ==
    [final |-> FALSE, relation_definitions |-> NoDict,
     subject_schemas |-> NoDict, object_schemas |-> NoDict]

\* Schema.add_relation_type
add_relation_type(S, relation_type) ==
    IF relation_type \in DOMAIN S.relations
    THEN Outcome(S, "BadSchemaDefinition")
    ELSE Outcome(TheSchema(S.entities, S.eschemas,
                           Put(S.relations, relation_type, RelationSchema)), "")

\* RelationDefinitionSchema.__init__
RelationDefinitionSchema(subject, object, infered) ==
    [subject |-> subject, object |-> object, infered |-> infered]

\* RelationSchema._update on one of the two dictionaries, for a set of
\* <<key, member>> pairs: setdefault(key, []) and append when not in the list
IndexAdd(index, objs, pairs) ==
    LET keys == {p[1] : p \in pairs}
        found(k) == IF k \in DOMAIN index /\ index[k].hash = objs[k].type
                    THEN index[k].value ELSE {}
    IN  [k \in DOMAIN index \cup keys |->
           IF k \in keys
           THEN [hash |-> objs[k].type,
                 value |-> found(k) \cup {p[2] : p \in {q \in pairs : q[1] = k}}]
           ELSE index[k]]

\* RelationSchema.del_relation_def on one of the two dictionaries, for a set
\* of <<key, member>> pairs: list.remove, and del of a key whose list is empty
IndexRemove(index, pairs) ==
    LET left(k) == index[k].value \ {p[2] : p \in {q \in pairs : q[1] = k}}
        kept == {k \in DOMAIN index : left(k) # {}}
    IN  [k \in kept |-> [hash |-> index[k].hash, value |-> left(k)]]
Swap(pairs) == {<<p[2], p[1]>> : p \in pairs}
TypeOf(objs, p) == <<objs[p[1]].type, objs[p[2]].type>>

\* RelationSchema._add_relation_definition for a set of definitions
\* <<subject, object>> of relation r, all with the same infered flag:
\* relation_definitions, _update, add_subject_relation, add_object_relation
add_relation_definitions(S, r, pairs, infered) ==
    LET rel == S.relations[r]
        subjects == {p[1] : p \in pairs}
        objects == {p[2] : p \in pairs}
        news == [k \in {TypeOf(S.eschemas, p) : p \in pairs} |->
                   LET p == CHOOSE q \in pairs : TypeOf(S.eschemas, q) = k
                   IN  RelationDefinitionSchema(p[1], p[2], infered)]
    IN  TheSchema(
          S.entities,
          [o \in DOMAIN S.eschemas |->
             [S.eschemas[o] EXCEPT
                !.subject_relations = IF o \in subjects THEN @ \cup {r} ELSE @,
                !.object_relations = IF o \in objects THEN @ \cup {r} ELSE @]],
          [S.relations EXCEPT ![r] =
             [@ EXCEPT !.relation_definitions = news @@ @,
                       !.subject_schemas = IndexAdd(@, S.eschemas, pairs),
                       !.object_schemas = IndexAdd(@, S.eschemas, Swap(pairs))]])

\* RelationSchema.objects(): tuple(self._object_schemas)
RelationSchema_objects(S, r) == DOMAIN S.relations[r].object_schemas

\* Schema.add_relation_def with RelationSchema.update and init_rproperties
\* (construction_mode "strict")
add_relation_def(S, definition) ==
    LET subject == entity_schema_for(S, definition[1])
        r == definition[2]
        object == entity_schema_for(S, definition[3])
        final == S.eschemas[object].final
        a_b == <<definition[1], definition[3]>>
        T == [S EXCEPT !.relations[r].final = final]
    IN  IF r \notin DOMAIN S.relations \/ subject = KeyError \/ object = KeyError
        THEN Outcome(S, "BadSchemaDefinition")
        ELSE IF S.eschemas[subject].final
        THEN Outcome(S, "BadSchemaDefinition")
        ELSE IF \E e \in RelationSchema_objects(S, r) \ {object} :
                   S.eschemas[e].final # final
        THEN Outcome(S, "BadSchemaDefinition")
        ELSE IF /\ a_b \in DOMAIN S.relations[r].relation_definitions
                /\ ~S.relations[r].relation_definitions[a_b].infered
        THEN Outcome(T, "BadSchemaDefinition")
        ELSE Outcome(add_relation_definitions(T, r, {<<subject, object>>}, FALSE), "")

\* the definitions infer_specialization_rules adds to relation r: each
\* definition copied to the specializations of its subject and of its object,
\* where no definition exists
Inferred(S, r) ==
    LET rdefs == S.relations[r].relation_definitions
        family(name) == {entity_schema_for(S, name)} \cup
                        specialized_by(S, entity_schema_for(S, name))
    IN  {p \in UNION {family(k[1]) \X family(k[2]) : k \in DOMAIN rdefs} :
           /\ KeyError \notin {p[1], p[2]}
           /\ TypeOf(S.eschemas, p) \notin DOMAIN rdefs}

\* infer_specialization_rules stops with KeyError at the first definition
\* whose subject or object has an unknown name among its specializations
InferenceFails(S) ==
    \E r \in DOMAIN S.relations : \E k \in DOMAIN S.relations[r].relation_definitions :
       \E n \in {k[1], k[2]} :
          \/ entity_schema_for(S, n) = KeyError
          \/ KeyError \in specialized_by(S, entity_schema_for(S, n))

RECURSIVE InferAll(_, _)
InferAll(S, rs) ==
    IF rs = {} THEN S
    ELSE LET r == CHOOSE x \in rs : TRUE
         IN  InferAll(add_relation_definitions(S, r, Inferred(S, r), TRUE), rs \ {r})

\* Schema.infer_specialization_rules (no_specialization_inference = ())
infer_specialization_rules(S) ==
    IF InferenceFails(S) THEN Outcome(S, "KeyError")
    ELSE Outcome(InferAll(S, DOMAIN S.relations), "")

\* RelationSchema.del_relation_def for a set of <<subject, object>> pairs of
\* relation r, with del_subject_relation / del_object_relation of the
\* entity schemas whose list became empty
del_relation_defs(S, r, pairs) ==
    LET rel == S.relations[r]
        nosubject == DOMAIN rel.subject_schemas \ DOMAIN IndexRemove(rel.subject_schemas, pairs)
        noobject == DOMAIN rel.object_schemas \ DOMAIN IndexRemove(rel.object_schemas, Swap(pairs))
    IN  TheSchema(
          S.entities,
          [o \in DOMAIN S.eschemas |->
             [S.eschemas[o] EXCEPT
                !.subject_relations = IF o \in nosubject THEN @ \ {r} ELSE @,
                !.object_relations = IF o \in noobject THEN @ \ {r} ELSE @]],
          [S.relations EXCEPT ![r] =
             [@ EXCEPT !.relation_definitions =
                          Del(@, {TypeOf(S.eschemas, p) : p \in pairs}),
                       !.subject_schemas = IndexRemove(@, pairs),
                       !.object_schemas = IndexRemove(@, Swap(pairs))]])

RECURSIVE RemoveAll(_, _)
RemoveAll(S, rs) ==
    IF rs = {} THEN S
    ELSE LET r == CHOOSE x \in rs : TRUE
             rdefs == S.relations[r].relation_definitions
             infered == {<<entity_schema_for(S, k[1]), entity_schema_for(S, k[2])>> :
                           k \in {j \in DOMAIN rdefs : rdefs[j].infered}}
         IN  RemoveAll(IF S.relations[r].final THEN S
                       ELSE del_relation_defs(S, r, infered), rs \ {r})

\* Schema.remove_infered_definitions
remove_infered_definitions(S) == Outcome(RemoveAll(S, DOMAIN S.relations), "")

\* rehash(dictionary) of a dictionary keyed by entity schemas
rehash(index, objs) == [k \in DOMAIN index |-> [index[k] EXCEPT !.hash = objs[k].type]]

\* Schema.rename_entity_type, ending with self._rehash()
rename_entity_type(S, old_name, new_name) ==
    LET entity_schema == S.entities[old_name]
        objs == [S.eschemas EXCEPT ![entity_schema].type = new_name]
        renamed(n) == IF n = old_name THEN new_name ELSE n
        rekey(rdefs) ==
            [k \in {<<renamed(j[1]), renamed(j[2])>> : j \in DOMAIN rdefs} |->
               rdefs[CHOOSE j \in DOMAIN rdefs : <<renamed(j[1]), renamed(j[2])>> = k]]
    IN  IF old_name \notin DOMAIN S.entities THEN Outcome(S, "KeyError")
        ELSE Outcome(
               TheSchema(
                 Put(Del(S.entities, {old_name}), new_name, entity_schema),
                 objs,
                 [r \in DOMAIN S.relations |->
                    [S.relations[r] EXCEPT
                       !.relation_definitions = rekey(@),
                       !.subject_schemas = rehash(@, objs),
                       !.object_schemas = rehash(@, objs)]]), "")

\* a call on the schema: the tables after it and the exception it raised
Called(op, args, out) ==
    /\ entities' = out.schema.entities
    /\ eschemas' = out.schema.eschemas
    /\ relations' = out.schema.relations
    /\ call' = [op |-> op, args |-> args, raised |-> out.raised]
    /\ UNCHANGED appVars
    /\ UNCHANGED <<checkVars, cstrVars, ftiVars, adapterVars>>

ThisSchema == TheSchema(entities, eschemas, relations)

schema_add_entity_type ==
    \E definition \in EntityTypes :
       Called("add_entity_type", <<definition.name>>, add_entity_type(ThisSchema, definition))
schema_add_relation_type ==
    \E relation_type \in RelationTypes :
       Called("add_relation_type", <<relation_type>>,
              add_relation_type(ThisSchema, relation_type))
schema_add_relation_def ==
    \E definition \in RelationDefinitions :
       Called("add_relation_def", definition, add_relation_def(ThisSchema, definition))
schema_infer_specialization_rules ==
    Called("infer_specialization_rules", <<>>, infer_specialization_rules(ThisSchema))
schema_remove_infered_definitions ==
    Called("remove_infered_definitions", <<>>, remove_infered_definitions(ThisSchema))
schema_rename_entity_type ==
    \E old_name \in OldNames : \E new_name \in NewNames \ DOMAIN entities :
       Called("rename_entity_type", <<old_name, new_name>>,
              rename_entity_type(ThisSchema, old_name, new_name))

(***************************************************************************)
(* yams: serialization of constraints (yams/constraints.py).  The text     *)
(* json writes is kept as the JSON value it denotes: encoding turns tuples *)
(* into arrays and Attribute / NOW / TODAY into objects, decoding gives    *)
(* lists and passes every object through _json_object_hook.                *)
(***************************************************************************)
PyTrue == [py |-> "bool", v |-> TRUE]
PyDict(items) == [py |-> "dict", items |-> items]
PyTuple(items) == [py |-> "tuple", items |-> items]
PyList(items) == [py |-> "list", items |-> items]

\* datetime.timedelta(days, seconds, microseconds), normalized
timedelta(days, seconds, microseconds) ==
    LET s == seconds + microseconds \div 1000000
    IN  [py |-> "timedelta", days |-> days + s \div 86400,
         seconds |-> s % 86400, microseconds |-> microseconds % 1000000]

Attribute(attr) == [py |-> "Attribute", attr |-> attr]
NOW(offset) == [py |-> "NOW", offset |-> offset]
TODAY(offset, type) == [py |-> "TODAY", offset |-> offset, type |-> type]

JNull == [js |-> "null"]
JTrue == [js |-> "true"]
JNumber(n) == [js |-> "number", v |-> n]
JString(s) == [js |-> "string", v |-> s]
JArray(items) == [js |-> "array", items |-> items]
JObject(members) == [js |-> "object", members |-> members]

\* the dictionary written for a timedelta offset
OffsetDict(offset) ==
    PyDict([days |-> PyInt(offset.days), seconds |-> PyInt(offset.seconds),
            microseconds |-> PyInt(offset.microseconds)])

\* ConstraintJSONEncoder.default
ConstraintJSONEncoder_default(obj) ==
    IF obj.py = "Attribute" THEN PyDict([__attribute__ |-> PyStr(obj.attr)])
    ELSE IF obj.py = "NOW"
    THEN IF obj.offset = PyNone
         THEN PyDict([__now__ |-> PyTrue, offset |-> obj.offset])
         ELSE PyDict([__now__ |-> PyTrue, offset |-> OffsetDict(obj.offset)])
    ELSE IF obj.offset = PyNone
         THEN PyDict([__today__ |-> PyTrue, offset |-> obj.offset,
                      type |-> PyStr(obj.type)])
         ELSE PyDict([__today__ |-> PyTrue, offset |-> OffsetDict(obj.offset),
                      type |-> PyStr(obj.type)])

\* cstr_json_dumps: ConstraintJSONEncoder(sort_keys=True).encode(obj)
RECURSIVE cstr_json_dumps(_)
cstr_json_dumps(obj) ==
    IF obj.py = "NoneType" THEN JNull
    ELSE IF obj.py = "bool" THEN JTrue
    ELSE IF obj.py = "int" THEN JNumber(obj.v)
    ELSE IF obj.py = "str" THEN JString(obj.v)
    ELSE IF obj.py \in {"tuple", "list"}
    THEN JArray([i \in DOMAIN obj.items |-> cstr_json_dumps(obj.items[i])])
    ELSE IF obj.py = "dict"
    THEN JObject([k \in DOMAIN obj.items |-> cstr_json_dumps(obj.items[k])])
    ELSE cstr_json_dumps(ConstraintJSONEncoder_default(obj))

\* datetime.timedelta(**dct["offset"]), or None
OffsetOf(dct) ==
    IF dct.items.offset # PyNone
    THEN timedelta(dct.items.offset.items.days.v, dct.items.offset.items.seconds.v,
                   dct.items.offset.items.microseconds.v)
    ELSE PyNone

\* mutant: TODAY rebuilt without the type that was written
json_object_hook_notype(dct) ==
    IF "__attribute__" \in DOMAIN dct.items THEN Attribute(dct.items.__attribute__.v)
    ELSE IF "__now__" \in DOMAIN dct.items THEN NOW(OffsetOf(dct))
    ELSE IF "__today__" \in DOMAIN dct.items THEN TODAY(OffsetOf(dct), "Date")
    ELSE dct

\* _json_object_hook
json_object_hook(dct) ==
    IF "__attribute__" \in DOMAIN dct.items THEN Attribute(dct.items.__attribute__.v)
    ELSE IF "__now__" \in DOMAIN dct.items THEN NOW(OffsetOf(dct))
    ELSE IF "__today__" \in DOMAIN dct.items THEN TODAY(OffsetOf(dct), dct.items.type.v)
    ELSE dct

\* cstr_json_loads: json.JSONDecoder(object_hook=_json_object_hook).decode
RECURSIVE cstr_json_loads(_)
cstr_json_loads(value) ==
    IF value.js = "null" THEN PyNone
    ELSE IF value.js = "true" THEN PyTrue
    ELSE IF value.js = "number" THEN PyInt(value.v)
    ELSE IF value.js = "string" THEN PyStr(value.v)
    ELSE IF value.js = "array"
    THEN PyList([i \in DOMAIN value.items |-> cstr_json_loads(value.items[i])])
    ELSE json_object_hook(
           PyDict([k \in DOMAIN value.members |-> cstr_json_loads(value.members[k])]))

\* the constructors (__init__) of the constraint classes
UniqueConstraint(msg) == [cls |-> "UniqueConstraint", msg |-> msg]
RegexpConstraint(regexp, flags, msg) ==
    [cls |-> "RegexpConstraint", regexp |-> regexp, flags |-> flags, msg |-> msg]
BoundaryConstraint(op, boundary, msg) ==
    [cls |-> "BoundaryConstraint", operator |-> op, boundary |-> boundary, msg |-> msg]
IntervalBoundConstraint(minvalue, maxvalue, msg) ==
    [cls |-> "IntervalBoundConstraint", minvalue |-> minvalue, maxvalue |-> maxvalue,
     msg |-> msg]
StaticVocabularyConstraint(values, msg) ==
    [cls |-> "StaticVocabularyConstraint", values |-> PyTuple(values.items), msg |-> msg]

\* BaseConstraint.type (BoundaryConstraint.type returns its own name too)
type(c) == c.cls

\* serialize of each class
serialize(c) ==
    IF c.cls = "UniqueConstraint" THEN cstr_json_dumps(PyDict([msg |-> c.msg]))
    ELSE IF c.cls = "SizeConstraint"
    THEN cstr_json_dumps(PyDict([min |-> c.min, max |-> c.max, msg |-> c.msg]))
    ELSE IF c.cls = "RegexpConstraint"
    THEN cstr_json_dumps(PyDict([regexp |-> c.regexp, flags |-> c.flags, msg |-> c.msg]))
    ELSE IF c.cls = "BoundaryConstraint"
    THEN cstr_json_dumps(PyDict([op |-> PyStr(c.operator), boundary |-> c.boundary,
                                 msg |-> c.msg]))
    ELSE IF c.cls = "IntervalBoundConstraint"
    THEN cstr_json_dumps(PyDict([minvalue |-> c.minvalue, maxvalue |-> c.maxvalue,
                                 msg |-> c.msg]))
    ELSE cstr_json_dumps(PyDict([values |-> c.values, msg |-> c.msg]))

\* cls.deserialize(value) for a JSON text: cls(**cstr_json_loads(value))
deserialize(cls, value) ==
    LET d == cstr_json_loads(value).items
    IN  IF cls = "UniqueConstraint" THEN UniqueConstraint(d.msg)
        ELSE IF cls = "SizeConstraint" THEN SizeConstraint(d.max, d.min, d.msg)
        ELSE IF cls = "RegexpConstraint" THEN RegexpConstraint(d.regexp, d.flags, d.msg)
        ELSE IF cls = "BoundaryConstraint" THEN BoundaryConstraint(d.op.v, d.boundary, d.msg)
        ELSE IF cls = "IntervalBoundConstraint"
        THEN IntervalBoundConstraint(d.minvalue, d.maxvalue, d.msg)
        ELSE StaticVocabularyConstraint(d.values, d.msg)

\* BaseConstraint.__eq__
constraint_eq(a, b) == <<type(a), serialize(a)>> = <<type(b), serialize(b)>>

\* the constraints that are serialized
Messages == {PyNone, PyStr("too big")}
Offsets == {PyNone, timedelta(1, 30, 0), timedelta(-1, 0, 500000)}
Boundaries ==
    {PyInt(5), Attribute("start")}
      \cup {NOW(offset) : offset \in Offsets}
      \cup {TODAY(offset, t) : offset \in Offsets, t \in {"Date", "Datetime"}}
Constraints ==
    {UniqueConstraint(msg) : msg \in Messages}
      \cup {SizeConstraint(max, min, msg) :
              max \in {PyNone, PyInt(3)}, min \in {PyInt(1)}, msg \in Messages}
      \cup {SizeConstraint(PyInt(3), PyNone, msg) : msg \in Messages}
      \cup {RegexpConstraint(PyStr("[a-z]+"), flags, msg) :
              flags \in {PyInt(0), PyInt(2)}, msg \in Messages}
      \cup {BoundaryConstraint(op, boundary, msg) :
              op \in {"<=", ">"}, boundary \in Boundaries \cup {PyNone}, msg \in Messages}
      \cup {IntervalBoundConstraint(minvalue, maxvalue, PyNone) :
              minvalue \in Boundaries, maxvalue \in {PyNone, PyInt(9), TODAY(PyNone, "Datetime")}}
      \cup {StaticVocabularyConstraint(PyTuple(values), msg) :
              values \in {<<>>, <<PyStr("a"), PyStr("b")>>}, msg \in Messages}

NoText == [js |-> "none"]
NoConstraint == [cls |-> "none"]

\* c.serialize()
constraint_serialize ==
    /\ serialized = NoText
    /\ serialized' = serialize(constraint)
    /\ UNCHANGED <<constraint, restored>>
    /\ UNCHANGED appVars
    /\ UNCHANGED <<checkVars, schemaVars, ftiVars, adapterVars>>

\* cls.deserialize(text), cls the class of c
constraint_deserialize ==
    /\ serialized # NoText
    /\ restored = NoConstraint
    /\ restored' = deserialize(constraint.cls, serialized)
    /\ UNCHANGED <<constraint, serialized>>
    /\ UNCHANGED appVars
    /\ UNCHANGED <<checkVars, schemaVars, ftiVars, adapterVars>>

(***************************************************************************)
(* logilab.database: the generic full-text index (fti.py, ftiquery.py).    *)
(* One connection works on the tables word and appears and on the table    *)
(* word_id_seq of the sequence; its cursor sees the uncommitted tables.    *)
(* An object is its get_words() dictionary, here with the one weight "C".  *)
(* index_object is called for uids that have no rows, so that appears      *)
(* holds no row twice and is a set.                                        *)
(***************************************************************************)
Uids == {1, 2}
Objects ==
    {[C |-> <<"foo", "Bar">>], [C |-> <<"foo", "a", "Bar">>],
     [C |-> <<"Bar", "foo">>], [C |-> <<"a">>]}
NoObject == [C |-> <<>>]

Tables(w, a, s) == [word |-> w, appears |-> a, word_id_seq |-> s]

\* str.lower() and unormalize on the words used
lower(w) == IF w = "Bar" THEN "bar" ELSE w
StopWord == "<StopWord>"
\* normalize(word): StopWord for a single letter
normalize(w) == IF Len(w) = 1 THEN StopWord ELSE lower(w)

\* the tokens kept by Query.add_phrase (normalize_words)
RECURSIVE normalize_words(_)
normalize_words(rawwords) ==
    IF rawwords = <<>> THEN <<>>
    ELSE IF normalize(Head(rawwords)) = StopWord THEN normalize_words(Tail(rawwords))
    ELSE <<normalize(Head(rawwords))>> \o normalize_words(Tail(rawwords))

\* FTIndexerMixIn._save_word on one connection (the INSERT into word does
\* not fail)
save_word(T, uid, w, position) ==
    LET n == normalize(w)
        known == {r \in T.word : r.word = n}
        wid == IF known = {} THEN T.word_id_seq + 1 ELSE (CHOOSE r \in known : TRUE).word_id
    IN  IF n = StopWord THEN T
        ELSE Tables(IF known = {} THEN T.word \cup {[word_id |-> wid, word |-> n]}
                    ELSE T.word,
                    T.appears \cup {[uid |-> uid, word_id |-> wid, pos |-> position]},
                    IF known = {} THEN wid ELSE T.word_id_seq)

\* the loops of cursor_index_object, from this position on
RECURSIVE index_words(_, _, _, _)
index_words(T, uid, words, position) ==
    IF words = <<>> THEN T
    ELSE index_words(save_word(T, uid, Head(words), position), uid, Tail(words),
                     position + 1)

\* sorted(obj.get_words().items()): the words in the order of the weights
sorted_words(obj) == obj.C

\* FTIndexerMixIn.cursor_index_object
cursor_index_object(T, uid, obj) == index_words(T, uid, sorted_words(obj), 0)

\* FTIndexerMixIn.cursor_unindex_object: DELETE FROM appears WHERE uid=...
cursor_unindex_object(T, uid) ==
    Tables(T.word, {a \in T.appears : a.uid # uid}, T.word_id_seq)

\* mutant: reindexing without the DELETE
cursor_reindex_object_keep(T, uid, obj) == cursor_index_object(T, uid, obj)

\* FTIndexerMixIn.cursor_reindex_object
cursor_reindex_object(T, uid, obj) ==
    cursor_index_object(cursor_unindex_object(T, uid), uid, obj)

\* the cursor operation of a call
cursor_operation(op, T, uid, obj) ==
    IF op = "index_object" THEN cursor_index_object(T, uid, obj)
    ELSE IF op = "unindex_object" THEN cursor_unindex_object(T, uid)
    ELSE cursor_reindex_object(T, uid, obj)

\* the tables a cursor operation leaves when a statement of it raises: the
\* words before the failing one are saved
Interrupted(op, T, uid, obj) ==
    LET start == IF op = "reindex_object" THEN cursor_unindex_object(T, uid) ELSE T
        saved == {index_words(start, uid, SubSeq(sorted_words(obj), 1, k), 0) :
                    k \in 0..(Len(sorted_words(obj)) - 1)}
    IN  IF op = "unindex_object" THEN {T} ELSE {T} \cup saved

\* the word of a row of appears (join with word on word_id)
WordOf(T, a) == (CHOOSE r \in T.word : r.word_id = a.word_id).word

RECURSIVE Product(_, _)
Product(f, S) ==
    IF S = {} THEN 1
    ELSE LET x == CHOOSE y \in S : TRUE IN f[x] * Product(f, S \ {x})

\* KeywordsQuery.dict_query: count(*) of the join over the words, by uid
KeywordsQuery_dict_query(T, words) ==
    LET rows(uid, w) == {a \in T.appears : a.uid = uid /\ WordOf(T, a) = w}
        rating(uid) == Product([w \in words |-> Cardinality(rows(uid, w))], words)
        uids == {a.uid : a \in T.appears}
    IN  [uid \in {u \in uids : rating(u) > 0} |-> rating(uid)]

NoUids == {0}
\* PhraseQuery.dict_query(cursor, uids), tokens not empty; uids NoUids for None
PhraseQuery_dict_query(T, tokens, uids) ==
    LET first == {a \in T.appears :
                    /\ WordOf(T, a) = tokens[1]
                    /\ (uids = NoUids \/ a.uid \in uids)}
        matches_all(a) ==
            \A i \in 2..Len(tokens) :
               \E b \in T.appears :
                  /\ WordOf(T, b) = tokens[i]
                  /\ b.pos = a.pos + (i - 1)
                  /\ b.uid = a.uid
        hits == {a \in first : matches_all(a)}
    IN  [uid \in {a.uid : a \in hits} |-> Cardinality({a \in hits : a.uid = uid})]

\* Query.add_word / Query.add_phrase applied to the parsed query string
Query(rawwords, rawphrases) ==
    [words |-> {normalize(rawwords[i]) : i \in DOMAIN rawwords} \ {StopWord},
     phrases |-> [i \in DOMAIN rawphrases |-> normalize_words(rawphrases[i])]]

Yielded(items, exc) == [items |-> items, raised |-> exc]

\* the loop over self.phrases of Query.execute and the final loop
RECURSIVE execute_phrases(_, _, _, _)
execute_phrases(T, phrases, results, items) ==
    IF phrases = <<>>
    THEN Yielded(items \cup {<<results[uid], uid>> : uid \in DOMAIN results}, "")
    ELSE IF Head(phrases) = <<>> THEN Yielded(items, "IndexError")
    ELSE LET results_ == PhraseQuery_dict_query(
                          T, Head(phrases),
                          IF DOMAIN results # {} THEN DOMAIN results ELSE NoUids)
             adjusted == [uid \in DOMAIN results_ |->
                            results_[uid] + (IF uid \in DOMAIN results
                                           THEN results[uid] ELSE 0)]
         IN  execute_phrases(T, Tail(phrases), adjusted,
                             IF DOMAIN results_ = {} THEN items \cup {<<>>} ELSE items)

\* Query.execute(cursor), the generator run to its end by the caller: the
\* items it yields and the exception that ends it.  `raise StopIteration()`
\* in a generator is a RuntimeError for the interpreter of this virtualenv
\* (python3.9, PEP 479).
execute(T, q) ==
    LET results == KeywordsQuery_dict_query(T, q.words)
    IN  IF q.words = {} /\ q.phrases = <<>> THEN Yielded({}, "AssertionError")
        ELSE IF q.words = {} THEN execute_phrases(T, q.phrases, [u \in {} |-> 0], {})
        ELSE IF DOMAIN results = {} THEN Yielded({}, "RuntimeError")
        ELSE execute_phrases(T, q.phrases, results, {})

\* the query strings of fulltext_search, parsed: words and quoted phrases
SearchWords == {<<>>, <<"foo">>, <<"zz">>}
Phrases == {<<"foo", "Bar">>, <<"foo", "a", "Bar">>, <<"Bar", "foo">>, <<"a">>}
SearchPhrases ==
    {<<>>} \cup {<<p>> : p \in Phrases}
      \cup {<<<<"foo", "Bar">>, <<"Bar", "foo">>>>}

Committed == Tables(word, appears, word_id_seq)
NoQuery == [words |-> {}, phrases |-> <<>>]
NoSearch == Yielded({}, "")
Running(op, uid, obj, pc, commits, rollbacks, exc) ==
    [op |-> op, uid |-> uid, obj |-> obj, pc |-> pc, commits |-> commits,
     rollbacks |-> rollbacks, raised |-> exc]
NoFti == Running("", 0, NoObject, "idle", 0, 0, "")

FtiOthers == <<appVars, checkVars, schemaVars, cstrVars, adapterVars>>

\* index_object / unindex_object / reindex_object are called:
\* cursor = cnx.cursor()
fti_call ==
    /\ fti.pc \in {"idle", "done"}
    /\ \E op \in {"index_object", "unindex_object", "reindex_object"} :
       \E uid \in Uids : \E obj \in Objects :
         /\ op = "index_object" => \A a \in appears : a.uid # uid
         /\ op = "unindex_object" => obj = CHOOSE o \in Objects : TRUE
         /\ fti' = Running(op, uid, obj, "cursor", 0, 0, "")
    /\ query' = NoQuery
    /\ yielded' = NoSearch
    /\ UNCHANGED <<word, appears, word_id_seq, cur>>
    /\ UNCHANGED FtiOthers

\* self.cursor_..._object(uid, obj, cursor): completes, or a statement raises
fti_cursor ==
    /\ fti.pc = "cursor"
    /\ \/ /\ cur' = cursor_operation(fti.op, cur, fti.uid, fti.obj)
          /\ fti' = [fti EXCEPT !.pc = "commit"]
       \/ /\ cur' \in Interrupted(fti.op, cur, fti.uid, fti.obj)
          /\ fti' = [fti EXCEPT !.pc = "except"]
    /\ UNCHANGED <<word, appears, word_id_seq, query, yielded>>
    /\ UNCHANGED FtiOthers

\* cnx.commit(): succeeds, or raises
fti_commit ==
    /\ fti.pc = "commit"
    /\ \/ /\ word' = cur.word
          /\ appears' = cur.appears
          /\ word_id_seq' = cur.word_id_seq
          /\ fti' = [fti EXCEPT !.pc = "done", !.commits = @ + 1]
       \/ /\ UNCHANGED <<word, appears, word_id_seq>>
          /\ fti' = [fti EXCEPT !.pc = "except"]
    /\ UNCHANGED <<cur, query, yielded>>
    /\ UNCHANGED FtiOthers

\* except Exception: cnx.rollback(); raise
fti_except ==
    /\ fti.pc = "except"
    /\ cur' = Committed
    /\ fti' = [fti EXCEPT !.pc = "done", !.rollbacks = @ + 1, !.raised = "Exception"]
    /\ UNCHANGED <<word, appears, word_id_seq, query, yielded>>
    /\ UNCHANGED FtiOthers

\* fulltext_search(query_string): query.execute(self._cnx.cursor())
fulltext_search ==
    /\ fti.pc \in {"idle", "done"}
    /\ \E rawwords \in SearchWords : \E rawphrases \in SearchPhrases :
         /\ query' = Query(rawwords, rawphrases)
         /\ yielded' = execute(cur, Query(rawwords, rawphrases))
    /\ fti' = Running("fulltext_search", 0, NoObject, "done", 0, 0, "")
    /\ UNCHANGED <<word, appears, word_id_seq, cur>>
    /\ UNCHANGED FtiOthers

(***************************************************************************)
(* logilab.database._AdapterDirectory: a dict driver -> {modname: adapter} *)
(***************************************************************************)
Drivers == {"postgres", "sqlite"}
Modnames == {"psycopg2", "sqlite3"}
Adapters == {"_Psycopg2Adapter", "_Sqlite3Adapter"}

EmptyDict == [m \in {} |-> ""]
NoAdapter == ""
AdapterCall(op, adapter, driver, modname, returned, exc) ==
    [op |-> op, adapter |-> adapter, driver |-> driver, modname |-> modname,
     returned |-> returned, raised |-> exc]
NoAdapterCall == AdapterCall("", NoAdapter, "", "", NoAdapter, "")

\* _AdapterDirectory.get_adapter(driver, modname) on the directory d: what
\* it returns and raises
get_adapter(d, driver, modname) ==
    IF driver \in DOMAIN d /\ modname \in DOMAIN d[driver]
    THEN [returned |-> d[driver][modname], raised |-> ""]
    ELSE [returned |-> NoAdapter, raised |-> "NoAdapterFound"]

\* _AdapterDirectory.register_adapter(adapter, driver, modname): for a driver
\* without entry the except branch stores {} and leaves driver_dict unbound
register_adapter(adapter, driver, modname) ==
    IF driver \in DOMAIN directory
    THEN /\ directory' = [directory EXCEPT ![driver] = Put(@, modname, adapter)]
         /\ adapter_call' = AdapterCall("register_adapter", adapter, driver, modname,
                                         NoAdapter, "")
    ELSE /\ directory' = Put(directory, driver, EmptyDict)
         /\ adapter_call' = AdapterCall("register_adapter", adapter, driver, modname,
                                         NoAdapter, "UnboundLocalError")

AdapterOthers == <<appVars, checkVars, schemaVars, cstrVars, ftiVars>>

directory_register_adapter ==
    /\ \E adapter \in Adapters : \E driver \in Drivers : \E modname \in Modnames :
          register_adapter(adapter, driver, modname)
    /\ UNCHANGED AdapterOthers

directory_get_adapter ==
    /\ \E driver \in Drivers : \E modname \in Modnames :
          adapter_call' = AdapterCall("get_adapter", NoAdapter, driver, modname,
                                      get_adapter(directory, driver, modname).returned,
                                      get_adapter(directory, driver, modname).raised)
    /\ UNCHANGED directory
    /\ UNCHANGED AdapterOthers

(***************************************************************************)
(* Initial values of the parts a specification does not run                *)
(***************************************************************************)
NoRequest == Request("", "", NoBody, Json("", 200))
Procs == {1, 2}

CrudIdle ==
    /\ students = {} /\ users = {} /\ schedules = {} /\ mealstatus = {}
    /\ userSeq = 0 /\ scheduleSeq = 0
    /\ last = NoRequest
ConcIdle ==
    /\ cpc = [p \in Procs |-> "idle"]
    /\ cbody = [p \in Procs |-> NoBody]
    /\ cvalid = [p \in Procs |-> FALSE]
    /\ cresp = [p \in Procs |-> Json("", 200)]
ScanIdle ==
    /\ spc = "idle" /\ ret = FALSE /\ frame = <<>> /\ key = -1
    /\ file = NoFile /\ window = FALSE /\ printed = <<>> /\ result = NoResult

CheckIdle ==
    /\ cardinality = [r \in DOMAIN subject_relations |-> "?"]
    /\ entity = [r \in {} |-> PyNone]
    /\ creation = FALSE
    /\ errors = [q \in {} |-> ""]
    /\ evaluated = {}
NoCall == [op |-> "", args |-> <<>>, raised |-> ""]
SchemaIdle ==
    /\ entities = NoDict /\ eschemas = NoDict /\ relations = NoDict
    /\ call = NoCall
CstrIdle ==
    /\ constraint = NoConstraint /\ serialized = NoText /\ restored = NoConstraint
FtiIdle ==
    /\ word = {} /\ appears = {} /\ word_id_seq = 0
    /\ cur = Tables({}, {}, 0)
    /\ fti = NoFti /\ query = NoQuery /\ yielded = NoSearch
AdapterIdle == directory = [k \in {} |-> EmptyDict] /\ adapter_call = NoAdapterCall
LibIdle == CheckIdle /\ SchemaIdle /\ CstrIdle /\ FtiIdle /\ AdapterIdle

(***************************************************************************)
(* Spec: the CRUD backend, starting from the empty database                *)
(***************************************************************************)
Init ==
    /\ CrudIdle
    /\ relField \in {"PrimaryKeyRelatedField", "ModelField"}
    /\ ConcIdle
    /\ ScanIdle
    /\ LibIdle

Next ==
    \/ studentApi_GET
    \/ \E body \in StudentPostBodies : studentApi_POST(body)
    \/ \E body \in StudentPutBodies : studentApi_PUT(body)
    \/ \E body \in StudentDeleteBodies : studentApi_DELETE(body)
    \/ userApi_GET
    \/ \E body \in UserPostBodies : userApi_POST(body)
    \/ \E body \in UserPutBodies : userApi_PUT(body)
    \/ \E body \in UserDeleteBodies : userApi_DELETE(body)
    \/ scheduleApi_GET
    \/ \E body \in SchedulePostBodies : scheduleApi_POST(body)
    \/ \E body \in SchedulePutBodies : scheduleApi_PUT(body)
    \/ \E body \in ScheduleDeleteBodies : scheduleApi_DELETE(body)
    \/ mealStatusApi_GET
    \/ \E body \in MealStatusPostBodies : mealStatusApi_POST(body)
    \/ \E body \in MealStatusPutBodies : mealStatusApi_PUT(body)
    \/ \E body \in MealStatusDeleteBodies : mealStatusApi_DELETE(body)

Spec == Init /\ [][Next]_vars

(***************************************************************************)
(* SpecConc: two POST requests on /student/ arrive together; the table     *)
(* holds any students earlier requests stored                              *)
(***************************************************************************)
InitConc ==
    /\ students \in SUBSET {StudentBody(k, "Abebe") : k \in StudentIds}
    /\ users = {} /\ schedules = {} /\ mealstatus = {}
    /\ userSeq = 0 /\ scheduleSeq = 0
    /\ last = NoRequest
    /\ relField = "ModelField"
    /\ cpc = [p \in Procs |-> "is_valid"]
    /\ cbody \in [Procs -> ConcBodies]
    /\ cvalid = [p \in Procs |-> FALSE]
    /\ cresp = [p \in Procs |-> Json("", 200)]
    /\ ScanIdle
    /\ LibIdle

NextConc == \E p \in Procs : conc_is_valid(p) \/ conc_save(p)

SpecConc == InitConc /\ [][NextConc]_vars

(***************************************************************************)
(* SpecScan: the scanner view, called again and again; barcode__.jpg stays *)
(* on disk between the calls                                               *)
(***************************************************************************)
InitScan ==
    /\ CrudIdle
    /\ relField = "ModelField"
    /\ ConcIdle
    /\ ScanIdle
    /\ LibIdle

NextScan == scanned \/ cam_read \/ show_waitKey \/ decode_barcode_return

SpecScan == InitScan /\ [][NextScan]_vars

(***************************************************************************)
(* SpecScanLive: the scanner view with its scheduling.  The process is     *)
(* single-threaded and every call of the loop returns (cam.read() delivers *)
(* or fails, cv.waitKey(1) waits one millisecond), so each step that is    *)
(* enabled is taken.  ExitEvent is the environment's part: a camera        *)
(* failure or a press of ESC, Enter or Space, which is possible in every   *)
(* iteration and is assumed to happen eventually.                          *)
(***************************************************************************)
ExitEvent ==
    \/ cam_read /\ ~ret'
    \/ show_waitKey /\ key' % 256 \in {27, 13, 32}

SpecScanLive ==
    /\ InitScan
    /\ [][NextScan]_vars
    /\ WF_vars(cam_read)
    /\ WF_vars(show_waitKey)
    /\ WF_vars(decode_barcode_return)
    /\ WF_vars(ExitEvent)

(***************************************************************************)
(* SpecCheck: EntitySchema.check called again and again on an entity type  *)
(* whose attributes have any subject cardinality                           *)
(***************************************************************************)
InitCheck ==
    /\ CrudIdle /\ relField = "ModelField" /\ ConcIdle /\ ScanIdle
    /\ cardinality \in [DOMAIN subject_relations -> SubjectCardinalities]
    /\ entity = [r \in {} |-> PyNone]
    /\ creation = FALSE
    /\ errors = [q \in {} |-> ""]
    /\ evaluated = {}
    /\ SchemaIdle
    /\ CstrIdle
    /\ FtiIdle
    /\ AdapterIdle

NextCheck == check

SpecCheck == InitCheck /\ [][NextCheck]_vars

(***************************************************************************)
(* SpecSchema: a schema built, inferred, cleaned and renamed in any order, *)
(* starting from the empty Schema                                          *)
(***************************************************************************)
InitSchema ==
    /\ CrudIdle /\ relField = "ModelField" /\ ConcIdle /\ ScanIdle
    /\ CheckIdle
    /\ SchemaIdle
    /\ CstrIdle
    /\ FtiIdle
    /\ AdapterIdle

NextSchema ==
    \/ schema_add_entity_type
    \/ schema_add_relation_type
    \/ schema_add_relation_def
    \/ schema_infer_specialization_rules
    \/ schema_remove_infered_definitions
    \/ schema_rename_entity_type

SpecSchema == InitSchema /\ [][NextSchema]_vars

(***************************************************************************)
(* SpecConstraint: a constraint is serialized, and the text is handed to   *)
(* deserialize of its class                                                *)
(***************************************************************************)
InitConstraint ==
    /\ CrudIdle /\ relField = "ModelField" /\ ConcIdle /\ ScanIdle
    /\ CheckIdle
    /\ SchemaIdle
    /\ constraint \in Constraints
    /\ serialized = NoText
    /\ restored = NoConstraint
    /\ FtiIdle
    /\ AdapterIdle

NextConstraint == constraint_serialize \/ constraint_deserialize

SpecConstraint == InitConstraint /\ [][NextConstraint]_vars

(***************************************************************************)
(* SpecFti: objects are indexed, unindexed and reindexed over one          *)
(* connection, starting from the empty tables, and searched between the    *)
(* calls                                                                   *)
(***************************************************************************)
InitFti ==
    /\ CrudIdle /\ relField = "ModelField" /\ ConcIdle /\ ScanIdle
    /\ CheckIdle
    /\ SchemaIdle
    /\ CstrIdle
    /\ FtiIdle
    /\ AdapterIdle

NextFti == fti_call \/ fti_cursor \/ fti_commit \/ fti_except \/ fulltext_search

SpecFti == InitFti /\ [][NextFti]_vars

(***************************************************************************)
(* SpecAdapter: adapters are registered in and fetched from the directory, *)
(* which is empty when created                                             *)
(***************************************************************************)
InitAdapter ==
    /\ CrudIdle /\ relField = "ModelField" /\ ConcIdle /\ ScanIdle
    /\ LibIdle

NextAdapter == directory_register_adapter \/ directory_get_adapter

SpecAdapter == InitAdapter /\ [][NextAdapter]_vars

(***************************************************************************)
(* Properties of the CRUD backend (checked under Spec)                     *)
(***************************************************************************)
PkUnique(rows, pk) == \A r1 \in rows : \A r2 \in rows : r1[pk] = r2[pk] => r1 = r2
Keys(rows, pk) == {r[pk] : r \in rows}
\* the step serves a request of this method on this endpoint
Serves(ep, method) == last'.ep = ep /\ last'.method = method
\* ... whose body names the key of a row stored when the request arrives
NamesStored(rows, pk) == pk \in DOMAIN last'.body /\ last'.body[pk] \in Keys(rows, pk)
NamesUnknown(rows, pk) == pk \in DOMAIN last'.body /\ last'.body[pk] \notin Keys(rows, pk)
Without(rows, pk) == {r \in rows : r[pk] # last'.body[pk]}
Named(rows, pk) == {r \in rows : r[pk] = last'.body[pk]}
Overwritten(rows, pk, writable) ==
    Without(rows, pk) \cup
      {[f \in DOMAIN r |-> IF f \in writable \cap DOMAIN last'.body
                           THEN last'.body[f] ELSE r[f]] : r \in Named(rows, pk)}
TablesUnchanged == UNCHANGED <<students, users, schedules, mealstatus>>

C2_DeleteRemovesExactlyThatRecord ==
    [][ /\ (Serves("student", "DELETE") /\ NamesStored(students, "student_id"))
             => students' = Without(students, "student_id")
        /\ (Serves("user", "DELETE") /\ NamesStored(users, "id"))
             => users' = Without(users, "id")
        /\ (Serves("schedule", "DELETE") /\ NamesStored(schedules, "schedule_id"))
             => schedules' = Without(schedules, "schedule_id")
        /\ (Serves("meal-status", "DELETE") /\ NamesStored(mealstatus, "student_id"))
             => mealstatus' = Without(mealstatus, "student_id")
      ]_vars

\* C3: on each of the four endpoints a PUT naming the key of a stored row
\* with a payload the serializer accepts overwrites that row with the
\* payload, answers "Data Updated Sucessfully!" ("Status Updated
\* Sucessfully!" for meal-status) and changes no other row
C3_PutReplacesRecord ==
    [][ /\ ( /\ Serves("student", "PUT") /\ NamesStored(students, "student_id")
             /\ StudentSerializer_is_valid(students, last'.body, Named(students, "student_id")) )
             => /\ last'.answer = Json("Data Updated Sucessfully!", 200)
                /\ students' = Overwritten(students, "student_id", StudentSerializer_fields)
        /\ ( /\ Serves("user", "PUT") /\ NamesStored(users, "id")
             /\ UserSerializer_is_valid(last'.body) )
             => /\ last'.answer = Json("Data Updated Sucessfully!", 200)
                /\ users' = Overwritten(users, "id", UserSerializer_writable)
        /\ ( /\ Serves("schedule", "PUT") /\ NamesStored(schedules, "schedule_id")
             /\ ScheduleSerializer_is_valid(last'.body) )
             => /\ last'.answer = Json("Data Updated Sucessfully!", 200)
                /\ schedules' = Overwritten(schedules, "schedule_id", ScheduleSerializer_fields)
        /\ ( /\ Serves("meal-status", "PUT") /\ NamesStored(mealstatus, "student_id")
             /\ MealStatusSerializer_is_valid(mealstatus, students, last'.body,
                                              Named(mealstatus, "student_id"), relField) )
             => /\ last'.answer = Json("Status Updated Sucessfully!", 200)
                /\ mealstatus' = Overwritten(mealstatus, "student_id", MealStatusSerializer_fields)
      ]_vars

\* C4: on each of the four endpoints a POST whose payload the serializer
\* rejects is answered with the JSON string "Failed to Add." and leaves the
\* tables as they were
C4_RejectedPostFailsToAdd ==
    [][ ( \/ Serves("student", "POST")
               /\ ~StudentSerializer_is_valid(students, last'.body, {})
          \/ Serves("user", "POST") /\ ~UserSerializer_is_valid(last'.body)
          \/ Serves("schedule", "POST") /\ ~ScheduleSerializer_is_valid(last'.body)
          \/ Serves("meal-status", "POST")
               /\ ~MealStatusSerializer_is_valid(mealstatus, students, last'.body, {}, relField) )
        => /\ last'.answer.kind = "json"
           /\ last'.answer.text = "Failed to Add."
           /\ TablesUnchanged
      ]_vars

\* C5: on the student, schedule and meal-status endpoints a DELETE naming a
\* key no stored row has is answered with the JSON string "No such a data."
\* and leaves every table unchanged
C5_DeleteUnknownNoSuchData ==
    [][ ( \/ Serves("student", "DELETE") /\ NamesUnknown(students, "student_id")
          \/ Serves("schedule", "DELETE") /\ NamesUnknown(schedules, "schedule_id")
          \/ Serves("meal-status", "DELETE") /\ NamesUnknown(mealstatus, "student_id") )
        => /\ last'.answer = Json("No such a data.", 200)
           /\ TablesUnchanged
      ]_vars

\* C6: after any sequence of requests every MealStatus row refers to a
\* stored Student and no student has two MealStatus rows; a student that a
\* request deletes has no MealStatus row afterwards, and a meal-status POST
\* naming an unknown or an already covered student creates nothing
MealStatusRefersToStudents ==
    /\ \A m \in mealstatus : m.student_id \in Keys(students, "student_id")
    /\ \A m1 \in mealstatus : \A m2 \in mealstatus :
           m1.student_id = m2.student_id => m1 = m2
ReachedReturn ==
    last.ep # "" /\ (last.answer.kind = "json" \/ last.answer.text = "TypeError")
C9_StatusCodes ==
    ReachedReturn =>
        IF last.method = "POST" /\ last.ep \in {"user", "meal-status"}
        THEN \/ last.answer.status = 201 /\ last.answer.text \in
                   {"User Added Sucessfully!", "Status Added Sucessfully!"}
             \/ last.answer.status = 400 /\ last.answer.text = "Failed to Add."
        ELSE last.answer.status = 200

(***************************************************************************)
(* Properties of the concurrent POSTs (checked under SpecConc)             *)
(***************************************************************************)
BothDone == \A p \in Procs : cpc[p] = "done"
\* both requests carry one student_id, and both passed is_valid() and saved
SameStudentRace ==
    /\ BothDone
    /\ cbody[1].student_id = cbody[2].student_id
    /\ cvalid[1] /\ cvalid[2]

\* C7: under every interleaving of two POSTs carrying the same student_id
\* that both validate and then save, the Student table ends with exactly
\* one row of that student_id
C7_OneRecordPerStudentId ==
    SameStudentRace =>
        Cardinality({r \in students : r.student_id = cbody[1].student_id}) = 1

\* C7 witness: both requests passed validation before either saved, with
\* different names for the one student_id; one was added, the other ran
\* into the key constraint
C7_Witness ==
    /\ SameStudentRace
    /\ cbody[1].name # cbody[2].name
    /\ cresp[1] = Raise("IntegrityError")
    /\ cresp[2] = Json("Student Added Sucessfully!", 200)

(***************************************************************************)
(* Properties of the scanner (checked under SpecScan)                      *)
(***************************************************************************)
\* C10: a failed camera read prints a message and leaves the loop, and on
\* every exit path of the loop a scan that finds no barcode returns the
\* "Barcode Not Detected ..." string instead of raising
C10_ScannerNeverRaises ==
    /\ (spc = "read_bar" /\ ~ret) => printed = <<"Failed to capture">>
    /\ spc = "done" =>
         /\ result.kind = "return"
         /\ (~file.exists \/ file.img = <<>>) => result.text = NotDetected

\* the loop of decode_barcode is running
InLoop == spc \in {"read", "show"}
\* one step of the loop: what it does with the camera result and the key
LoopStep ==
    /\ (spc = "read" /\ spc' # "read") =>
          /\ ret' => spc' = "show"
          /\ ~ret' => spc' = "read_bar"
    /\ (spc = "show" /\ spc' # "show") =>
          /\ key' % 256 \in {27, 13, 32} => spc' = "read_bar"
          /\ key' % 256 \notin {27, 13, 32} => spc' = "read"
          /\ key' % 256 \in {13, 32} => file' = [exists |-> TRUE, img |-> frame]
    /\ file' # file => (spc = "show" /\ key' % 256 \in {13, 32})

\* C11: the capture loop leaves only when the camera read fails or the key
\* code modulo 256 is 27, 13 or 32, any other key or no key starts the next
\* iteration, barcode__.jpg is written only on Enter or Space, and, the
\* exit event being assumed to happen eventually, a running loop ends
C11_LoopTerminates ==
    /\ [][LoopStep]_vars
    /\ (InLoop ~> spc = "read_bar")

\* a key that is none of the three was read and the loop went on, then Space
\* (with flag bits above the low byte) ended it and wrote the frame
C11_Witness ==
    /\ spc = "read_bar"
    /\ key = 1048608
    /\ window = FALSE
    /\ file.exists /\ file.img = frame

(***************************************************************************)
(* Properties of EntitySchema.check (checked under SpecCheck)              *)
(***************************************************************************)
Missing(r) == r \notin DOMAIN entity
IsNone(r) == r \in DOMAIN entity /\ entity[r] = PyNone
NoError(r) == role_name(r, "subject") \notin DOMAIN errors
Required(r) ==
    /\ role_name(r, "subject") \in DOMAIN errors
    /\ errors[role_name(r, "subject")] = "required attribute"

\* C12: with subject cardinality '1' a missing attribute is reported as
\* "required attribute" exactly when creation is true and a None value is
\* reported in both modes; with cardinality '?' neither is an error; a None
\* value never reaches check_value or a constraint
C12_RequiredAttribute ==
    \A r \in DOMAIN subject_relations :
        /\ (cardinality[r] = "1" /\ Missing(r) /\ creation) => Required(r)
        /\ (cardinality[r] = "1" /\ Missing(r) /\ ~creation) => NoError(r)
        /\ (cardinality[r] = "1" /\ IsNone(r)) => Required(r)
        /\ (cardinality[r] = "?" /\ (Missing(r) \/ IsNone(r))) => NoError(r)
        /\ IsNone(r) => \A made \in evaluated : made[1] # r

\* on edition: name (required) is missing and not reported, title
\* (required) is None and reported
C12_Witness ==
    /\ cardinality = [name |-> "1", title |-> "1"]
    /\ ~creation
    /\ Missing("name") /\ NoError("name")
    /\ IsNone("title") /\ Required("title")

(***************************************************************************)
(* Properties of the yams schema (checked under SpecSchema)                *)
(***************************************************************************)
NextSchemaState == TheSchema(entities', eschemas', relations')
SchemaUnchanged == UNCHANGED <<entities, eschemas, relations>>

\* C13: add_entity_type of a name that is an entity type of the schema, and
\* add_relation_type of a name that is a relation type, raise
\* BadSchemaDefinition and leave the entity and relation tables as they were
C13_DuplicateTypeRejected ==
    [][/\ (call'.op = "add_entity_type" /\ call'.args[1] \in DOMAIN entities) =>
            (call'.raised = "BadSchemaDefinition" /\ SchemaUnchanged)
       /\ (call'.op = "add_relation_type" /\ call'.args[1] \in DOMAIN relations) =>
            (call'.raised = "BadSchemaDefinition" /\ SchemaUnchanged)]_vars

\* Person was added a second time, in a schema that holds definitions
C13_Witness ==
    /\ call = [op |-> "add_entity_type", args |-> <<"Person">>,
               raised |-> "BadSchemaDefinition"]
    /\ "Person" \in DOMAIN entities
    /\ "knows" \in DOMAIN relations
    /\ <<"Person", "Person">> \in DOMAIN relations["knows"].relation_definitions

\* C14: after remove_infered_definitions no relation definition of the schema
\* has its infered flag set, and every definition that was not inferred is
\* still there
C14_NoInferredDefinitionLeft ==
    [][call'.op = "remove_infered_definitions" =>
         \A r \in DOMAIN relations :
            /\ r \in DOMAIN relations'
            /\ \A k \in DOMAIN relations'[r].relation_definitions :
                  ~relations'[r].relation_definitions[k].infered
            /\ \A k \in DOMAIN relations[r].relation_definitions :
                  ~relations[r].relation_definitions[k].infered =>
                     /\ k \in DOMAIN relations'[r].relation_definitions
                     /\ relations'[r].relation_definitions[k] =
                          relations[r].relation_definitions[k]]_vars

\* C15: after rename_entity_type(old, new) the entity schema is found under
\* new and not under old, no relation definition key and no subject/object
\* index mentions old, and specializes() of the subtypes of the renamed type
\* and specialized_by() of its supertype return what they returned before
C15_RenameKeepsSchemaConsistent ==
    [][(call'.op = "rename_entity_type" /\ call'.raised = "") =>
         LET old == call'.args[1]
             new == call'.args[2]
             it == entities[old]
             super == specializes(ThisSchema, it)
         IN  /\ old \notin DOMAIN entities'
             /\ new \in DOMAIN entities' /\ entities'[new] = it
             /\ \A r \in DOMAIN relations' :
                   /\ \A k \in DOMAIN relations'[r].relation_definitions :
                         old \notin {k[1], k[2]}
                   /\ \A k \in DOMAIN relations[r].relation_definitions :
                         <<IF k[1] = old THEN new ELSE k[1],
                           IF k[2] = old THEN new ELSE k[2]>>
                            \in DOMAIN relations'[r].relation_definitions
                   /\ \A k \in DOMAIN relations'[r].subject_schemas :
                         relations'[r].subject_schemas[k].hash = eschemas'[k].type
                   /\ \A k \in DOMAIN relations'[r].object_schemas :
                         relations'[r].object_schemas[k].hash = eschemas'[k].type
             /\ \A o \in DOMAIN eschemas :
                   specializes(ThisSchema, o) = it => specializes(NextSchemaState, o) = it
             /\ super \notin {NoSchema, KeyError} =>
                   specialized_by(NextSchemaState, super) = specialized_by(ThisSchema, super)]_vars

(***************************************************************************)
(* Properties of the constraint serialization (checked under               *)
(* SpecConstraint)                                                         *)
(***************************************************************************)
\* C16: for a constraint c of the six classes, cls.deserialize(c.serialize())
\* is a constraint of the class of c that equals c (same type(), same
\* serialization), boundaries Attribute, NOW and TODAY included
C16_SerializeRoundTrip ==
    restored # NoConstraint =>
        /\ restored.cls = constraint.cls
        /\ type(restored) = type(constraint)
        /\ serialize(restored) = serialize(constraint)
        /\ constraint_eq(restored, constraint)

\* a boundary TODAY with an offset and the type "Datetime" came back
C16_Witness ==
    /\ constraint.cls = "BoundaryConstraint"
    /\ constraint.boundary = TODAY(timedelta(1, 30, 0), "Datetime")
    /\ constraint.msg # PyNone
    /\ restored = constraint

(***************************************************************************)
(* Properties of the full-text index (checked under SpecFti)               *)
(***************************************************************************)
IndexOps == {"index_object", "unindex_object", "reindex_object"}

\* the non-stop words of the object with the positions cursor_index_object
\* gives them, as rows of appears
RowsOf(uid, obj) ==
    {[uid |-> uid,
      word_id |-> (CHOOSE r \in word : r.word = normalize(sorted_words(obj)[i])).word_id,
      pos |-> i - 1] :
       i \in {j \in DOMAIN sorted_words(obj) :
                /\ normalize(sorted_words(obj)[j]) # StopWord
                /\ \E r \in word : r.word = normalize(sorted_words(obj)[j])}}

\* the words indexed for uid, in the order of their positions
IndexedWords(uid) ==
    LET rows == {a \in appears : a.uid = uid}
        at(i) == CHOOSE a \in rows : Cardinality({b \in rows : b.pos < a.pos}) = i - 1
    IN  [i \in 1..Cardinality(rows) |-> WordOf(Committed, at(i))]

\* the tokens occur one after the other, in this order, among the words
Consecutive(tokens, words) ==
    \E i \in 0..(Len(words) - Len(tokens)) :
       \A j \in 1..Len(tokens) : words[i + j] = tokens[j]

\* the uids of the pairs a search yielded
YieldedUids == {item[2] : item \in {i \in yielded.items : Len(i) = 2}}

\* C17: a query of one phrase (with a token left after normalization)
\* matches exactly the objects in which the phrase's normalized tokens occur
\* one after the other, in order, among the words indexed for the object;
\* stop words in the indexed text or the phrase make no difference
C17_PhraseMatchesConsecutiveWords ==
    (/\ fti.op = "fulltext_search"
     /\ query.words = {}
     /\ Len(query.phrases) = 1
     /\ query.phrases[1] # <<>>)
    => YieldedUids = {uid \in Uids : Consecutive(query.phrases[1], IndexedWords(uid))}

\* the uid is among the objects the phrase query matches
MatchesPhrase(uid, tokens) ==
    uid \in DOMAIN PhraseQuery_dict_query(Committed, tokens, NoUids)

\* each keyword is indexed for the uid
MatchesKeywords(uid, words) ==
    \A w \in words : \E a \in appears : a.uid = uid /\ WordOf(Committed, a) = w

\* C18: every item yielded by Query.execute is a (rating, uid) pair whose
\* uid matches all keywords and every phrase; when the keywords match no
\* object or some phrase matches none, nothing is yielded and no error is
\* raised (queries whose phrases all keep a token)
C18_ExecuteYieldsMatchingPairs ==
    (/\ fti.op = "fulltext_search"
     /\ query # NoQuery
     /\ \A i \in DOMAIN query.phrases : query.phrases[i] # <<>>)
    => /\ \A item \in yielded.items :
             /\ Len(item) = 2
             /\ MatchesKeywords(item[2], query.words)
             /\ \A i \in DOMAIN query.phrases : MatchesPhrase(item[2], query.phrases[i])
       /\ (\/ (query.words # {} /\ ~ \E uid \in Uids : MatchesKeywords(uid, query.words))
           \/ \E i \in DOMAIN query.phrases :
                 ~ \E uid \in Uids : MatchesPhrase(uid, query.phrases[i]))
          => (yielded.items = {} /\ yielded.raised = "")

C20_RegisteredAdapterIsReturned ==
    /\ adapter_call.op = "register_adapter"
       => /\ adapter_call.raised = ""
          /\ get_adapter(directory, adapter_call.driver, adapter_call.modname)
               = [returned |-> adapter_call.adapter, raised |-> ""]
    /\ (/\ adapter_call.op = "get_adapter"
        /\ ~ (/\ adapter_call.driver \in DOMAIN directory
              /\ adapter_call.modname \in DOMAIN directory[adapter_call.driver]))
       => adapter_call.raised = "NoAdapterFound"

====
